---- MODULE Spec2Model ----
(***************************************************************************)
(* A model of the scrapscript language kernel (src/scrapscript.py): the   *)
(* expression tree, the serializer and deserializer, the pattern matcher, *)
(* closure minimization and the evaluator.                                *)
(*                                                                        *)
(* Representation.  An expression node is a record whose field k names    *)
(* its class.  Python objects that the code compares by identity or       *)
(* mutates in place live in a heap:                                       *)
(*   heap.dicts  - the dict objects used as environments (address = index)*)
(*   heap.clos   - the Closure objects, [env |-> dict address, func]      *)
(*   heap.nlist  - the number of List objects allocated so far; a List    *)
(*                 node carries its object identity in the field lid      *)
(* A dict is a sequence of [key, val] entries in insertion order.         *)
(* A raised exception is a result whose st field is the exception's name. *)
(* Integers of the model stay inside 32 bits, so the bignum (TYPE_LONG)   *)
(* encoding is defined but never taken.                                   *)
(***************************************************************************)
EXTENDS Integers, Sequences, FiniteSets, TLC

VARIABLES
    phase,   \* position of the driver of the specification being run
    heap,    \* the object heap: dicts, closures, list counter
    obj,     \* serde: the object handed to Serializer.serialize
    ser,     \* serde: the Serializer after serialize (refs, output, st)
    de,      \* serde: the Deserializer after parse and the parsed object
    menv,    \* eval: address of the current ScrapMonad's environment dict
    prev,    \* eval: the call just made: environment, expression, heap before
    res,     \* eval: the result of the last eval_exp call
    mobj,    \* match: the value handed to match
    mpat,    \* match: the pattern handed to match
    mres,    \* match: the result of match
    types,   \* types: the type variables' forwarding pointers, fresh_var_counter
    ucall,   \* types: the unify_type call just made and how it ended
    inferred, \* types: the result of the last infer_type call
    text,    \* text: the source text handed to the lexer or to from_str
    toks,    \* text: the result of tokenize
    tree,    \* text: the result of parse
    printed, \* text: the result of pretty or to_str
    back,    \* text: the result of tokenizing and parsing the printed text
    cache    \* text: handle_recursion's list of the objects being printed

typevars == <<types, ucall, inferred>>
textvars == <<text, toks, tree, printed, back, cache>>
vars == <<phase, heap, obj, ser, de, menv, prev, res, mobj, mpat, mres, typevars, textvars>>

----------------------------------------------------------------------------
(* Bounds *)

MaxFuel == 12        \* depth of the eval_exp recursion before RecursionError
MaxBinds == 2        \* number of definitions a chain binds before its last source
MaxUnify == 2        \* number of unify_type calls made on one type forest

----------------------------------------------------------------------------
(* The expression tree, src/scrapscript.py 705-925 *)

IntObj(n) == [k |-> "Int", ival |-> n]
Float(f) == [k |-> "Float", fval |-> f]
String(s) == [k |-> "String", sval |-> s]
Bytes(b) == [k |-> "Bytes", bval |-> b]
Var(n) == [k |-> "Var", name |-> n]
Hole == [k |-> "Hole"]
\* Spread.name is Optional[str]: <<>> is None, <<n>> is the name n
Spread(n) == [k |-> "Spread", sname |-> n]
Binop(o, l, r) == [k |-> "Binop", op |-> o, left |-> l, right |-> r]
List(id, xs) == [k |-> "List", lid |-> id, items |-> xs]
Assign(n, v) == [k |-> "Assign", target |-> n, value |-> v]
Function(a, b) == [k |-> "Function", arg |-> a, body |-> b]
Apply(f, a) == [k |-> "Apply", func |-> f, arg |-> a]
Where(b, a) == [k |-> "Where", body |-> b, binding |-> a]
AssertObj(v, c) == [k |-> "Assert", value |-> v, cond |-> c]
EnvObject(d) == [k |-> "EnvObject", envd |-> d]
MatchCase(p, b) == [k |-> "MatchCase", pattern |-> p, body |-> b]
MatchFunction(cs) == [k |-> "MatchFunction", cases |-> cs]
NativeFunction(n) == [k |-> "NativeFunction", nname |-> n]
\* a Closure value is a reference to the closure object heap.clos[a]
Closure(a) == [k |-> "Closure", addr |-> a]
\* Record.data is a dict: a sequence of [key, val] entries
Record(d) == [k |-> "Record", data |-> d]
Access(o, a) == [k |-> "Access", obj |-> o, at |-> a]
Variant(t, v) == [k |-> "Variant", tag |-> t, value |-> v]
\* a reference to a List object that the deserializer's ref table holds
ListRef(id) == [k |-> "ListRef", lid |-> id]

TRUE_ == Variant("true", Hole)
FALSE_ == Variant("false", Hole)

BinopKind ==
    {"ADD", "SUB", "MUL", "DIV", "FLOOR_DIV", "EXP", "MOD", "EQUAL",
     "NOT_EQUAL", "LESS", "GREATER", "LESS_EQUAL", "GREATER_EQUAL",
     "BOOL_AND", "BOOL_OR", "STRING_CONCAT", "LIST_CONS", "LIST_APPEND",
     "RIGHT_EVAL", "HASTYPE", "PIPE", "REVERSE_PIPE"}

\* the dict literal of BinopKind.from_str
from_str_table ==
    << <<"+", "ADD">>, <<"-", "SUB">>, <<"*", "MUL">>, <<"/", "DIV">>,
       <<"//", "FLOOR_DIV">>, <<"^", "EXP">>, <<"%", "MOD">>,
       <<"==", "EQUAL">>, <<"/=", "NOT_EQUAL">>, <<"<", "LESS">>,
       <<">", "GREATER">>, <<"<=", "LESS_EQUAL">>, <<">=", "GREATER_EQUAL">>,
       <<"&&", "BOOL_AND">>, <<"||", "BOOL_OR">>, <<"++", "STRING_CONCAT">>,
       <<">+", "LIST_CONS">>, <<"+<", "LIST_APPEND">>, <<"!", "RIGHT_EVAL">>,
       <<":", "HASTYPE">>, <<"|>", "PIPE">>, <<"<|", "REVERSE_PIPE">> >>

\* the dict literal of BinopKind.to_str (it has no entry for FLOOR_DIV)
to_str_table ==
    << <<"ADD", "+">>, <<"SUB", "-">>, <<"MUL", "*">>, <<"DIV", "/">>,
       <<"EXP", "^">>, <<"MOD", "%">>, <<"EQUAL", "==">>,
       <<"NOT_EQUAL", "/=">>, <<"LESS", "<">>, <<"GREATER", ">">>,
       <<"LESS_EQUAL", "<=">>, <<"GREATER_EQUAL", ">=">>,
       <<"BOOL_AND", "&&">>, <<"BOOL_OR", "||">>, <<"STRING_CONCAT", "++">>,
       <<"LIST_CONS", ">+">>, <<"LIST_APPEND", "+<">>, <<"RIGHT_EVAL", "!">>,
       <<"HASTYPE", ":">>, <<"PIPE", "|>">>, <<"REVERSE_PIPE", "<|">> >>

\* table[key] of a Python dict literal; [st |-> "KeyError"] when key is absent
TableGet(table, key) ==
    LET hits == {i \in 1..Len(table) : table[i][1] = key}
    IN IF hits = {} THEN [st |-> "KeyError", v |-> ""]
       ELSE [st |-> "ok", v |-> table[CHOOSE i \in hits : TRUE][2]]

from_str(x) == TableGet(from_str_table, x)
to_str(binop_kind) == TableGet(to_str_table, binop_kind)

----------------------------------------------------------------------------
(* Python dicts: insertion-ordered sequences of [key, val] entries *)

DictKeys(d) == {d[i].key : i \in 1..Len(d)}
DictHas(d, key) == key \in DictKeys(d)
DictGet(d, key) == d[CHOOSE i \in 1..Len(d) : d[i].key = key].val
\* d[key] = val: an existing key keeps its position
DictSet(d, key, val) ==
    IF DictHas(d, key)
    THEN [i \in 1..Len(d) |-> IF d[i].key = key THEN [key |-> key, val |-> val] ELSE d[i]]
    ELSE Append(d, [key |-> key, val |-> val])

RECURSIVE DictMerge(_, _)
\* {**a, **b}
DictMerge(a, b) ==
    IF b = <<>> THEN a
    ELSE DictMerge(DictSet(a, Head(b).key, Head(b).val), Tail(b))

EmptyHeap == [dicts |-> <<>>, clos |-> <<>>, nlist |-> 0]

----------------------------------------------------------------------------
(* Text: str.encode("utf-8") and str(bytes, "utf-8") on the strings used *)

Utf8Table ==
    << <<"", <<>> >>, <<"a", <<97>> >>, <<"b", <<98>> >>, <<"f", <<102>> >>,
       <<"g", <<103>> >>, <<"x", <<120>> >>, <<"y", <<121>> >>,
       <<"z", <<122>> >>, <<"hi", <<104, 105>> >>, <<"t", <<116>> >>,
       <<"true", <<116, 114, 117, 101>> >>,
       <<"false", <<102, 97, 108, 115, 101>> >>,
       <<"...", <<46, 46, 46>> >>,
       <<"+", <<43>> >>, <<"-", <<45>> >>, <<"*", <<42>> >>, <<"/", <<47>> >>,
       <<"//", <<47, 47>> >>, <<"^", <<94>> >>, <<"%", <<37>> >>,
       <<"==", <<61, 61>> >>, <<"/=", <<47, 61>> >>, <<"<", <<60>> >>,
       <<">", <<62>> >>, <<"<=", <<60, 61>> >>, <<">=", <<62, 61>> >>,
       <<"&&", <<38, 38>> >>, <<"||", <<124, 124>> >>, <<"++", <<43, 43>> >>,
       <<">+", <<62, 43>> >>, <<"+<", <<43, 60>> >>, <<"!", <<33>> >>,
       <<":", <<58>> >>, <<"|>", <<124, 62>> >>, <<"<|", <<60, 124>> >> >>

encode_utf8(s) == Utf8Table[CHOOSE i \in 1..Len(Utf8Table) : Utf8Table[i][1] = s][2]
decode_utf8(b) == Utf8Table[CHOOSE i \in 1..Len(Utf8Table) : Utf8Table[i][2] = b][1]

\* A float is held as the exact fraction <<numerator, denominator>> in lowest
\* terms.  struct.pack("<d", x) on the floats used: eight bytes, little endian
FloatTable ==
    << << <<0, 1>>, <<0, 0, 0, 0, 0, 0, 0, 0>> >>,
       << <<1, 1>>, <<0, 0, 0, 0, 0, 0, 240, 63>> >>,
       << <<1, 2>>, <<0, 0, 0, 0, 0, 0, 224, 63>> >>,
       << <<157, 50>>, <<31, 133, 235, 81, 184, 30, 9, 64>> >> >>

pack_d(f) == FloatTable[CHOOSE i \in 1..Len(FloatTable) : FloatTable[i][1] = f][2]
unpack_d(b) == FloatTable[CHOOSE i \in 1..Len(FloatTable) : FloatTable[i][2] = b][1]

----------------------------------------------------------------------------
(* Serialization tags, src/scrapscript.py 927-965 *)

TYPE_SHORT == 105
TYPE_LONG == 108
TYPE_FLOAT == 100
TYPE_STRING == 115
TYPE_REF == 114
TYPE_LIST == 91
TYPE_RECORD == 123
TYPE_VARIANT == 35
TYPE_VAR == 118
TYPE_FUNCTION == 102
TYPE_MATCH_FUNCTION == 109
TYPE_CLOSURE == 99
TYPE_BYTES == 98
TYPE_HOLE == 40
TYPE_ASSIGN == 61
TYPE_BINOP == 43
TYPE_APPLY == 32
TYPE_WHERE == 46
TYPE_ACCESS == 64
TYPE_SPREAD == 83
TYPE_NAMED_SPREAD == 82
FLAG_REF == 128

BITS_PER_BYTE == 8
BYTES_PER_DIGIT == 8
BITS_PER_DIGIT == BYTES_PER_DIGIT * BITS_PER_BYTE
DIGIT_MASK == 2^BITS_PER_DIGIT - 1

\* tag[0] | FLAG_REF, for a tag below 128
ref(tag) == tag + FLAG_REF

zigzag_encode(val) == IF val < 0 THEN -2 * val - 1 ELSE 2 * val

zigzag_decode(val) == IF val % 2 = 1 THEN (-val) \div 2 ELSE val \div 2

----------------------------------------------------------------------------
(* Serializer, src/scrapscript.py 984-1138 *)
(* A Serializer is [refs, output, st]: refs holds the identities of the   *)
(* registered objects, output the bytes, st "ok" or the exception raised. *)

NewSerializer == [refs |-> <<>>, output |-> <<>>, st |-> "ok"]

\* the identity of a List or Closure object
RefKey(o) ==
    IF o.k = "Closure" THEN [rk |-> "Closure", id |-> o.addr]
    ELSE [rk |-> "List", id |-> o.lid]

\* Serializer.ref: the index of obj in refs (by identity), -1 for None
Serializer_ref(S, o) ==
    IF o.k \notin {"List", "Closure"} THEN -1
    ELSE LET hits == {i \in 1..Len(S.refs) : S.refs[i] = RefKey(o)}
         IN IF hits = {} THEN -1
            ELSE (CHOOSE i \in hits : \A j \in hits : i <= j) - 1

emit(S, bytes) == [S EXCEPT !.output = @ \o bytes]

add_ref(S, ty, o) ==
    IF Serializer_ref(S, o) # -1 THEN [S EXCEPT !.st = "AssertionError"]
    ELSE [emit(S, <<ref(ty)>>) EXCEPT !.refs = Append(@, RefKey(o))]

\* every integer of the model fits in 32 bits, hence in nbits >= 32
fits_in_nbits(n, nbits) ==
    \/ nbits > 31
    \/ (-(2^(nbits - 1)) <= n /\ n < 2^(nbits - 1))

RECURSIVE varint(_)
\* the loop of Serializer._short on the zigzag-encoded number
varint(number) ==
    LET towrite == number % 128
        rest == number \div 128
    IN IF rest # 0 THEN <<towrite + 128>> \o varint(rest) ELSE <<towrite>>

Serializer_short(number) == varint(zigzag_encode(number))

RECURSIVE long_digits(_)
long_digits(number) ==
    IF number = 0 THEN <<>>
    ELSE <<number % (DIGIT_MASK + 1)>> \o long_digits(number \div (DIGIT_MASK + 1))

RECURSIVE to_bytes_little(_, _)
\* int.to_bytes(size, "little")
to_bytes_little(digit, size) ==
    IF size = 0 THEN <<>>
    ELSE <<digit % 256>> \o to_bytes_little(digit \div 256, size - 1)

RECURSIVE FlattenSeq(_)
FlattenSeq(ss) == IF ss = <<>> THEN <<>> ELSE Head(ss) \o FlattenSeq(Tail(ss))

Serializer_long(number) ==
    LET digits == long_digits(zigzag_encode(number))
    IN Serializer_short(Len(digits)) \o
       FlattenSeq([i \in 1..Len(digits) |-> to_bytes_little(digits[i], BYTES_PER_DIGIT)])

Serializer_string(s) ==
    LET encoded == encode_utf8(s)
    IN Serializer_short(Len(encoded)) \o encoded

RECURSIVE serialize(_, _, _), serialize_items(_, _, _), serialize_dict(_, _, _),
          serialize_cases(_, _, _)

\* for item in items: self.serialize(item)
serialize_items(S, H, items) ==
    IF items = <<>> \/ S.st # "ok" THEN S
    ELSE serialize_items(serialize(S, H, Head(items)), H, Tail(items))

\* for key, value in d.items(): self.emit(self._string(key)); self.serialize(value)
serialize_dict(S, H, d) ==
    IF d = <<>> \/ S.st # "ok" THEN S
    ELSE serialize_dict(serialize(emit(S, Serializer_string(Head(d).key)), H, Head(d).val),
                        H, Tail(d))

\* for case in cases: self.serialize(case.pattern); self.serialize(case.body)
serialize_cases(S, H, cases) ==
    IF cases = <<>> \/ S.st # "ok" THEN S
    ELSE serialize_cases(
             serialize(serialize(S, H, Head(cases).pattern), H, Head(cases).body),
             H, Tail(cases))

\* Serializer.serialize(obj), the objects living in heap H
serialize(S, H, o) ==
    IF S.st # "ok" THEN S
    ELSE IF Serializer_ref(S, o) # -1
    THEN emit(S, <<TYPE_REF>> \o Serializer_short(Serializer_ref(S, o)))
    ELSE CASE o.k = "Int" ->
                IF fits_in_nbits(o.ival, 64)
                THEN emit(emit(S, <<TYPE_SHORT>>), Serializer_short(o.ival))
                ELSE emit(emit(S, <<TYPE_LONG>>), Serializer_long(o.ival))
           [] o.k = "String" -> emit(S, <<TYPE_STRING>> \o Serializer_string(o.sval))
           [] o.k = "List" ->
                LET S1 == add_ref(S, TYPE_LIST, o)
                IN IF S1.st # "ok" THEN S1
                   ELSE serialize_items(emit(S1, Serializer_short(Len(o.items))), H, o.items)
           [] o.k = "Variant" ->
                serialize(emit(emit(S, <<TYPE_VARIANT>>), Serializer_string(o.tag)), H, o.value)
           [] o.k = "Record" ->
                serialize_dict(emit(emit(S, <<TYPE_RECORD>>), Serializer_short(Len(o.data))),
                               H, o.data)
           [] o.k = "Var" -> emit(S, <<TYPE_VAR>> \o Serializer_string(o.name))
           [] o.k = "Function" ->
                serialize(serialize(emit(S, <<TYPE_FUNCTION>>), H, o.arg), H, o.body)
           [] o.k = "MatchFunction" ->
                serialize_cases(
                    emit(emit(S, <<TYPE_MATCH_FUNCTION>>), Serializer_short(Len(o.cases))),
                    H, o.cases)
           [] o.k = "Closure" ->
                LET S1 == add_ref(S, TYPE_CLOSURE, o)
                    c == H.clos[o.addr]
                    S2 == serialize(S1, H, c.func)
                IN IF S1.st # "ok" THEN S1
                   ELSE IF S2.st # "ok" THEN S2
                   ELSE serialize_dict(emit(S2, Serializer_short(Len(H.dicts[c.env]))),
                                       H, H.dicts[c.env])
           [] o.k = "Bytes" ->
                emit(emit(emit(S, <<TYPE_BYTES>>), Serializer_short(Len(o.bval))), o.bval)
           [] o.k = "Float" -> emit(emit(S, <<TYPE_FLOAT>>), pack_d(o.fval))
           [] o.k = "Hole" -> emit(S, <<TYPE_HOLE>>)
           [] o.k = "Assign" ->
                serialize(serialize(emit(S, <<TYPE_ASSIGN>>), H, o.target), H, o.value)
           [] o.k = "Binop" ->
                LET t == to_str(o.op)
                IN IF t.st # "ok" THEN [emit(S, <<TYPE_BINOP>>) EXCEPT !.st = t.st]
                   ELSE serialize(
                            serialize(emit(emit(S, <<TYPE_BINOP>>), Serializer_string(t.v)),
                                      H, o.left),
                            H, o.right)
           [] o.k = "Apply" ->
                serialize(serialize(emit(S, <<TYPE_APPLY>>), H, o.func), H, o.arg)
           [] o.k = "Where" ->
                serialize(serialize(emit(S, <<TYPE_WHERE>>), H, o.body), H, o.binding)
           [] o.k = "Access" ->
                serialize(serialize(emit(S, <<TYPE_ACCESS>>), H, o.obj), H, o.at)
           [] o.k = "Spread" ->
                IF o.sname # <<>>
                THEN emit(emit(S, <<TYPE_NAMED_SPREAD>>), Serializer_string(o.sname[1]))
                ELSE emit(S, <<TYPE_SPREAD>>)
           [] OTHER -> [S EXCEPT !.st = "NotImplementedError"]

----------------------------------------------------------------------------
(* Deserializer, src/scrapscript.py 1141-1297 *)
(* A Deserializer is [idx, refs, heap, st]; heap is the heap of the        *)
(* process, in which it allocates the objects it creates.  An operation   *)
(* returns [d |-> Deserializer, v |-> the value returned].                *)

NewDeserializer(H) == [idx |-> 0, refs |-> <<>>, heap |-> H, st |-> "ok"]

Raise(D, err) == [d |-> [D EXCEPT !.st = err], v |-> Hole]

Min(a, b) == IF a < b THEN a ELSE b

\* Deserializer.read: the slice flat[idx : idx + size], idx advanced by size
read(flat, D, size) ==
    [d |-> [D EXCEPT !.idx = @ + size],
     v |-> SubSeq(flat, D.idx + 1, Min(D.idx + size, Len(flat)))]

\* Deserializer.read_tag: v is <<tag & ~FLAG_REF, is_ref>>
read_tag(flat, D) ==
    LET r == read(flat, D, 1)
    IN IF r.v = <<>> THEN Raise(r.d, "IndexError")
       ELSE [d |-> r.d, v |-> <<r.v[1] % FLAG_REF, r.v[1] >= FLAG_REF>>]

RECURSIVE read_varint(_, _, _, _)
\* the loop of Deserializer._short
read_varint(flat, D, shift, result) ==
    LET r == read(flat, D, 1)
    IN IF r.v = <<>> THEN Raise(r.d, "IndexError")
       ELSE LET i == r.v[1]
                result1 == result + (i % 128) * 2^shift
            IN IF i >= 128 THEN read_varint(flat, r.d, shift + 7, result1)
               ELSE [d |-> r.d, v |-> zigzag_decode(result1)]

Deserializer_short(flat, D) == read_varint(flat, D, 0, 0)

RECURSIVE from_bytes_little(_)
\* int.from_bytes(b, "little")
from_bytes_little(b) ==
    IF b = <<>> THEN 0 ELSE Head(b) + 256 * from_bytes_little(Tail(b))

RECURSIVE read_digits(_, _, _)
\* the loops of Deserializer._long: v is the number the digits denote
read_digits(flat, D, n) ==
    IF n <= 0 THEN [d |-> D, v |-> 0]
    ELSE LET r == read(flat, D, BYTES_PER_DIGIT)
             rest == read_digits(flat, r.d, n - 1)
         IN [d |-> rest.d, v |-> from_bytes_little(r.v) + (DIGIT_MASK + 1) * rest.v]

Deserializer_long(flat, D) ==
    LET n == Deserializer_short(flat, D)
        r == read_digits(flat, n.d, n.v)
    IN IF n.d.st # "ok" THEN n
       ELSE [d |-> r.d, v |-> zigzag_decode(r.v)]

Deserializer_string(flat, D) ==
    LET n == Deserializer_short(flat, D)
        r == read(flat, n.d, n.v)
    IN IF n.d.st # "ok" THEN n
       ELSE [d |-> r.d, v |-> decode_utf8(r.v)]

\* self.refs[idx], with Python's negative indexing
refs_at(D, idx) ==
    LET n == Len(D.refs)
        i == IF idx < 0 THEN idx + n ELSE idx
    IN IF i < 0 \/ i >= n THEN Raise(D, "IndexError")
       ELSE [d |-> D,
             v |-> IF D.refs[i + 1].rk = "Closure" THEN Closure(D.refs[i + 1].id)
                   ELSE ListRef(D.refs[i + 1].id)]

RECURSIVE parse(_, _), parse_items(_, _, _, _), parse_record(_, _, _, _),
          parse_cases(_, _, _, _), parse_env(_, _, _, _)

\* for i in range(length): result_list.items.append(self.parse())
parse_items(flat, D, length, items) ==
    IF length <= 0 \/ D.st # "ok" THEN [d |-> D, v |-> items]
    ELSE LET r == parse(flat, D)
         IN parse_items(flat, r.d, length - 1, Append(items, r.v))

\* for i in range(length): key = self._string(); result_rec.data[key] = self.parse()
parse_record(flat, D, length, data) ==
    IF length <= 0 \/ D.st # "ok" THEN [d |-> D, v |-> data]
    ELSE LET key == Deserializer_string(flat, D)
             value == parse(flat, key.d)
         IN IF key.d.st # "ok" THEN [d |-> key.d, v |-> data]
            ELSE parse_record(flat, value.d, length - 1, DictSet(data, key.v, value.v))

\* for i in range(length): cases.append(MatchCase(self.parse(), self.parse()))
parse_cases(flat, D, length, cases) ==
    IF length <= 0 \/ D.st # "ok" THEN [d |-> D, v |-> cases]
    ELSE LET pattern == parse(flat, D)
             body == parse(flat, pattern.d)
         IN parse_cases(flat, body.d, length - 1,
                        Append(cases, MatchCase(pattern.v, body.v)))

\* for i in range(length): result_closure.env[self._string()] = self.parse()
parse_env(flat, D, length, a) ==
    IF length <= 0 \/ D.st # "ok" THEN [d |-> D, v |-> Closure(a)]
    ELSE LET key == Deserializer_string(flat, D)
             value == parse(flat, key.d)
             e == value.d.heap.clos[a].env
         IN IF key.d.st # "ok" THEN [d |-> key.d, v |-> Closure(a)]
            ELSE parse_env(flat,
                           [value.d EXCEPT !.heap.dicts[e] = DictSet(@, key.v, value.v)],
                           length - 1, a)

\* a pair of sub-objects parsed one after the other
parse2(flat, D) ==
    LET a == parse(flat, D)
        b == parse(flat, a.d)
    IN [d |-> b.d, v |-> <<a.v, b.v>>]

\* Deserializer.parse
parse(flat, D0) ==
    LET t == read_tag(flat, D0)
        D == t.d
        ty == t.v[1]
        is_ref == t.v[2]
    IN IF D0.st # "ok" THEN Raise(D0, D0.st)
       ELSE IF D.st # "ok" THEN t
       ELSE IF ty = TYPE_REF
       THEN LET idx == Deserializer_short(flat, D)
            IN IF idx.d.st # "ok" THEN idx ELSE refs_at(idx.d, idx.v)
       ELSE IF ty = TYPE_LIST
       THEN LET length == Deserializer_short(flat, D)
                id == length.d.heap.nlist + 1
                D1 == [length.d EXCEPT !.heap.nlist = id,
                                       !.refs = Append(@, [rk |-> "List", id |-> id])]
                r == parse_items(flat, D1, length.v, <<>>)
            IN IF length.d.st # "ok" THEN length
               ELSE IF ~is_ref THEN Raise(length.d, "AssertionError")
               ELSE [d |-> r.d, v |-> List(id, r.v)]
       ELSE IF ty = TYPE_CLOSURE
       THEN LET func == parse(flat, D)
                length == Deserializer_short(flat, func.d)
                H == length.d.heap
                e == Len(H.dicts) + 1
                a == Len(H.clos) + 1
                D1 == [length.d EXCEPT
                          !.heap.dicts = Append(@, <<>>),
                          !.heap.clos = Append(@, [env |-> e, func |-> func.v]),
                          !.refs = Append(@, [rk |-> "Closure", id |-> a])]
            IN IF func.d.st # "ok" THEN func
               ELSE IF length.d.st # "ok" THEN length
               ELSE IF func.v.k \notin {"Function", "MatchFunction"}
               THEN Raise(length.d, "AssertionError")
               ELSE IF ~is_ref THEN Raise(length.d, "AssertionError")
               ELSE parse_env(flat, D1, length.v, a)
       ELSE IF ty = TYPE_SPREAD THEN [d |-> D, v |-> Spread(<<>>)]
       ELSE IF ty = TYPE_NAMED_SPREAD
       THEN LET n == Deserializer_string(flat, D)
            IN [d |-> n.d, v |-> Spread(<<n.v>>)]
       ELSE IF ty \notin {TYPE_SHORT, TYPE_LONG, TYPE_STRING, TYPE_RECORD, TYPE_VARIANT,
                          TYPE_VAR, TYPE_FUNCTION, TYPE_MATCH_FUNCTION, TYPE_BYTES,
                          TYPE_FLOAT, TYPE_HOLE, TYPE_ASSIGN, TYPE_BINOP, TYPE_APPLY,
                          TYPE_WHERE, TYPE_ACCESS}
       THEN Raise(D, "NotImplementedError")
       ELSE IF is_ref THEN Raise(D, "AssertionError")
       ELSE CASE ty = TYPE_SHORT ->
                   LET n == Deserializer_short(flat, D)
                   IN [d |-> n.d, v |-> IntObj(n.v)]
              [] ty = TYPE_LONG ->
                   LET n == Deserializer_long(flat, D)
                   IN [d |-> n.d, v |-> IntObj(n.v)]
              [] ty = TYPE_STRING ->
                   LET n == Deserializer_string(flat, D)
                   IN [d |-> n.d, v |-> String(n.v)]
              [] ty = TYPE_RECORD ->
                   LET length == Deserializer_short(flat, D)
                       r == parse_record(flat, length.d, length.v, <<>>)
                   IN IF length.d.st # "ok" THEN length
                      ELSE [d |-> r.d, v |-> Record(r.v)]
              [] ty = TYPE_VARIANT ->
                   LET tag == Deserializer_string(flat, D)
                       value == parse(flat, tag.d)
                   IN IF tag.d.st # "ok" THEN tag
                      ELSE [d |-> value.d, v |-> Variant(tag.v, value.v)]
              [] ty = TYPE_VAR ->
                   LET n == Deserializer_string(flat, D)
                   IN [d |-> n.d, v |-> Var(n.v)]
              [] ty = TYPE_FUNCTION ->
                   LET p == parse2(flat, D)
                   IN [d |-> p.d, v |-> Function(p.v[1], p.v[2])]
              [] ty = TYPE_MATCH_FUNCTION ->
                   LET length == Deserializer_short(flat, D)
                       r == parse_cases(flat, length.d, length.v, <<>>)
                   IN IF length.d.st # "ok" THEN length
                      ELSE [d |-> r.d, v |-> MatchFunction(r.v)]
              [] ty = TYPE_BYTES ->
                   LET length == Deserializer_short(flat, D)
                       r == read(flat, length.d, length.v)
                   IN IF length.d.st # "ok" THEN length
                      ELSE [d |-> r.d, v |-> Bytes(r.v)]
              [] ty = TYPE_FLOAT ->
                   LET r == read(flat, D, 8)
                   IN [d |-> r.d, v |-> Float(unpack_d(r.v))]
              [] ty = TYPE_HOLE -> [d |-> D, v |-> Hole]
              [] ty = TYPE_ASSIGN ->
                   LET p == parse2(flat, D)
                   IN IF p.d.st = "ok" /\ p.v[1].k # "Var"
                      THEN Raise(p.d, "AssertionError")
                      ELSE [d |-> p.d, v |-> Assign(p.v[1], p.v[2])]
              [] ty = TYPE_BINOP ->
                   LET n == Deserializer_string(flat, D)
                       op == from_str(n.v)
                       p == parse2(flat, n.d)
                   IN IF n.d.st # "ok" THEN n
                      ELSE IF op.st # "ok" THEN Raise(n.d, op.st)
                      ELSE [d |-> p.d, v |-> Binop(op.v, p.v[1], p.v[2])]
              [] ty = TYPE_APPLY ->
                   LET p == parse2(flat, D)
                   IN [d |-> p.d, v |-> Apply(p.v[1], p.v[2])]
              [] ty = TYPE_WHERE ->
                   LET p == parse2(flat, D)
                   IN [d |-> p.d, v |-> Where(p.v[1], p.v[2])]
              [] ty = TYPE_ACCESS ->
                   LET p == parse2(flat, D)
                   IN [d |-> p.d, v |-> Access(p.v[1], p.v[2])]

----------------------------------------------------------------------------
(* Parser output.  parse_unary and parse_binary build one new object per   *)
(* node; Label gives every List node of a tree its own identity.          *)

RECURSIVE Label(_, _), LabelSeq(_, _), LabelDict(_, _), LabelCases(_, _)

\* v: the items labelled in order, n: the last identity used
LabelSeq(xs, n) ==
    IF xs = <<>> THEN [v |-> <<>>, n |-> n]
    ELSE LET h == Label(Head(xs), n)
             t == LabelSeq(Tail(xs), h.n)
         IN [v |-> <<h.v>> \o t.v, n |-> t.n]

LabelDict(d, n) ==
    IF d = <<>> THEN [v |-> <<>>, n |-> n]
    ELSE LET h == Label(Head(d).val, n)
             t == LabelDict(Tail(d), h.n)
         IN [v |-> <<[key |-> Head(d).key, val |-> h.v]>> \o t.v, n |-> t.n]

LabelCases(cs, n) ==
    IF cs = <<>> THEN [v |-> <<>>, n |-> n]
    ELSE LET h == LabelSeq(<<Head(cs).pattern, Head(cs).body>>, n)
             t == LabelCases(Tail(cs), h.n)
         IN [v |-> <<MatchCase(h.v[1], h.v[2])>> \o t.v, n |-> t.n]

Label(e, n) ==
    CASE e.k = "List" ->
           LET r == LabelSeq(e.items, n + 1) IN [v |-> List(n + 1, r.v), n |-> r.n]
      [] e.k = "Record" ->
           LET r == LabelDict(e.data, n) IN [v |-> Record(r.v), n |-> r.n]
      [] e.k = "MatchFunction" ->
           LET r == LabelCases(e.cases, n) IN [v |-> MatchFunction(r.v), n |-> r.n]
      [] e.k = "Variant" ->
           LET r == Label(e.value, n) IN [v |-> Variant(e.tag, r.v), n |-> r.n]
      [] e.k = "Binop" ->
           LET r == LabelSeq(<<e.left, e.right>>, n)
           IN [v |-> Binop(e.op, r.v[1], r.v[2]), n |-> r.n]
      [] e.k = "Assign" ->
           LET r == Label(e.value, n) IN [v |-> Assign(e.target, r.v), n |-> r.n]
      [] e.k = "Function" ->
           LET r == LabelSeq(<<e.arg, e.body>>, n)
           IN [v |-> Function(r.v[1], r.v[2]), n |-> r.n]
      [] e.k = "Apply" ->
           LET r == LabelSeq(<<e.func, e.arg>>, n)
           IN [v |-> Apply(r.v[1], r.v[2]), n |-> r.n]
      [] e.k = "Where" ->
           LET r == LabelSeq(<<e.body, e.binding>>, n)
           IN [v |-> Where(r.v[1], r.v[2]), n |-> r.n]
      [] e.k = "Assert" ->
           LET r == LabelSeq(<<e.value, e.cond>>, n)
           IN [v |-> AssertObj(r.v[1], r.v[2]), n |-> r.n]
      [] e.k = "Access" ->
           LET r == LabelSeq(<<e.obj, e.at>>, n)
           IN [v |-> Access(r.v[1], r.v[2]), n |-> r.n]
      [] OTHER -> [v |-> e, n |-> n]

\* the unlabelled list literal [x1, ..., xn]
L(xs) == List(0, xs)
\* the dict {k1: v1, ...} from <<k1, v1>> pairs
Dict(ps) == [i \in 1..Len(ps) |-> [key |-> ps[i][1], val |-> ps[i][2]]]

Atoms ==
    {IntObj(0), IntObj(-1), IntObj(300), Float(<<1, 2>>), String("hi"),
     Bytes(<<97, 98>>), Var("x"), Hole, Spread(<<>>), Spread(<<"x">>)}

\* one node of every class the parser builds, over small operands
Shallow ==
    {Binop(o, Var("x"), IntObj(1)) : o \in BinopKind}
    \cup {Variant("t", a) : a \in {Hole, IntObj(1)}}
    \cup {L(<<>>), L(<<IntObj(1)>>), L(<<Var("x"), Spread(<<"y">>)>>)}
    \cup {Record(<<>>), Record(Dict(<< <<"a", IntObj(1)>>, <<"b", Var("x")>> >>)),
          Record(Dict(<< <<"a", Var("x")>>, <<"...", Spread(<<>>)>> >>))}
    \cup {Assign(Var("x"), a) : a \in {IntObj(1), String("hi")}}
    \cup {Function(a, Var("x")) : a \in {Var("x"), Var("y"), IntObj(1)}}
    \cup {Apply(Var("f"), a) : a \in {Var("x"), IntObj(1)}}
    \cup {Where(Var("x"), a) : a \in {Assign(Var("x"), IntObj(1)), Var("y")}}
    \cup {AssertObj(IntObj(1), a) : a \in {TRUE_, FALSE_}}
    \cup {Access(Var("x"), a) : a \in {Var("a"), IntObj(0)}}
    \cup {MatchFunction(<<>>),
          MatchFunction(<<MatchCase(IntObj(1), Var("x")),
                          MatchCase(L(<<IntObj(1)>>), Var("y"))>>)}

\* nodes whose children are themselves compound
Nested ==
    {Function(Var("x"), b) : b \in {L(<<Var("f")>>), L(<<L(<<>>), L(<<Var("x")>>)>>),
                                   AssertObj(Var("x"), TRUE_),
                                   Binop("FLOOR_DIV", Var("x"), IntObj(2)),
                                   Binop("ADD", Var("x"), Binop("MUL", Var("y"), IntObj(2)))}}
    \cup {L(<<L(<<IntObj(1)>>), L(<<>>), Record(Dict(<< <<"a", L(<<>>)>> >>))>>),
          Where(Apply(Var("f"), IntObj(1)), Assign(Var("f"), Function(Var("x"), Var("f")))),
          Variant("t", Variant("t", L(<<Hole>>))),
          Apply(MatchFunction(<<MatchCase(L(<<Var("x"), Spread(<<"y">>)>>), Var("y"))>>),
                L(<<IntObj(1), IntObj(2)>>))}

ParserOutput == {Label(e, 0).v : e \in Atoms \cup Shallow \cup Nested}

----------------------------------------------------------------------------
(* Equality of objects: the __eq__ that dataclass(eq=True) generates,      *)
(* src/scrapscript.py 708-928.  Fields are compared as tuples, and tuple, *)
(* list and dict comparison take two identical objects for equal.         *)
(* The result is "eq", "ne" or "RecursionError".                          *)

RECURSIVE PyEq(_, _, _, _), PyEqSeq(_, _, _, _), PyEqDict(_, _, _, _)

\* a == b for two Python lists of objects
PyEqSeq(H, xs, ys, fuel) ==
    IF Len(xs) # Len(ys) THEN "ne"
    ELSE IF xs = <<>> THEN "eq"
    ELSE LET h == PyEq(H, Head(xs), Head(ys), fuel)
         IN IF h # "eq" THEN h ELSE PyEqSeq(H, Tail(xs), Tail(ys), fuel)

\* a == b for two Python dicts: same length, every key of a in b with an equal value
PyEqDict(H, a, b, fuel) ==
    IF Len(a) # Len(b) THEN "ne"
    ELSE IF a = <<>> THEN "eq"
    ELSE IF ~DictHas(b, Head(a).key) THEN "ne"
    ELSE LET h == PyEq(H, Head(a).val, DictGet(b, Head(a).key), fuel)
             brest == SelectSeq(b, LAMBDA e : e.key # Head(a).key)
         IN IF h # "eq" THEN h ELSE PyEqDict(H, Tail(a), brest, fuel)

PyEq(H, a, b, fuel) ==
    IF fuel = 0 THEN "RecursionError"
    ELSE IF a.k # b.k THEN "ne"
    ELSE CASE a.k = "List" ->
                IF a.lid # 0 /\ a.lid = b.lid THEN "eq"
                ELSE PyEqSeq(H, a.items, b.items, fuel - 1)
           [] a.k = "Closure" ->
                IF a.addr = b.addr THEN "eq"
                ELSE LET ca == H.clos[a.addr]
                         cb == H.clos[b.addr]
                         e == IF ca.env = cb.env THEN "eq"
                              ELSE PyEqDict(H, H.dicts[ca.env], H.dicts[cb.env], fuel - 1)
                     IN IF e # "eq" THEN e ELSE PyEq(H, ca.func, cb.func, fuel - 1)
           [] a.k = "EnvObject" ->
                IF a.envd = b.envd THEN "eq"
                ELSE PyEqDict(H, H.dicts[a.envd], H.dicts[b.envd], fuel - 1)
           [] a.k = "Record" -> PyEqDict(H, a.data, b.data, fuel - 1)
           [] a.k = "Variant" ->
                IF a.tag # b.tag THEN "ne" ELSE PyEq(H, a.value, b.value, fuel - 1)
           [] a.k = "Binop" ->
                IF a.op # b.op THEN "ne"
                ELSE PyEqSeq(H, <<a.left, a.right>>, <<b.left, b.right>>, fuel - 1)
           [] a.k = "Assign" ->
                PyEqSeq(H, <<a.target, a.value>>, <<b.target, b.value>>, fuel - 1)
           [] a.k = "Function" ->
                PyEqSeq(H, <<a.arg, a.body>>, <<b.arg, b.body>>, fuel - 1)
           [] a.k = "Apply" ->
                PyEqSeq(H, <<a.func, a.arg>>, <<b.func, b.arg>>, fuel - 1)
           [] a.k = "Where" ->
                PyEqSeq(H, <<a.body, a.binding>>, <<b.body, b.binding>>, fuel - 1)
           [] a.k = "Assert" ->
                PyEqSeq(H, <<a.value, a.cond>>, <<b.value, b.cond>>, fuel - 1)
           [] a.k = "Access" ->
                PyEqSeq(H, <<a.obj, a.at>>, <<b.obj, b.at>>, fuel - 1)
           [] a.k = "MatchCase" ->
                PyEqSeq(H, <<a.pattern, a.body>>, <<b.pattern, b.body>>, fuel - 1)
           [] a.k = "MatchFunction" -> PyEqSeq(H, a.cases, b.cases, fuel - 1)
           [] OTHER -> IF a = b THEN "eq" ELSE "ne"

----------------------------------------------------------------------------
(* Numbers.  An int or float is [isint, num, den], the fraction num/den   *)
(* in lowest terms with den > 0.                                          *)

RECURSIVE Gcd(_, _)
Gcd(a, b) == IF b = 0 THEN a ELSE Gcd(b, a % b)
Abs(a) == IF a < 0 THEN -a ELSE a

Frac(isint, num, den) ==
    LET sgn == IF den < 0 THEN -1 ELSE 1
        g == Gcd(Abs(num), Abs(den))
    IN [isint |-> isint, num |-> sgn * (num \div g), den |-> sgn * (den \div g)]

RECURSIVE FracPow(_, _)
FracPow(x, n) ==
    IF n = 0 THEN Frac(x.isint, 1, 1)
    ELSE LET r == FracPow(x, n - 1) IN Frac(x.isint, x.num * r.num, x.den * r.den)

\* Python's x // y on two numbers, y nonzero
FracFloor(x, y) ==
    LET n == x.num * y.den
        d == x.den * y.num
    IN IF d < 0 THEN (-n) \div (-d) ELSE n \div d

\* the value of a Python arithmetic operator; st is the exception it raises
Arith(op, x, y) ==
    LET both == x.isint /\ y.isint
    IN CASE op = "ADD" ->
              [st |-> "ok", v |-> Frac(both, x.num * y.den + y.num * x.den, x.den * y.den)]
         [] op = "SUB" ->
              [st |-> "ok", v |-> Frac(both, x.num * y.den - y.num * x.den, x.den * y.den)]
         [] op = "MUL" -> [st |-> "ok", v |-> Frac(both, x.num * y.num, x.den * y.den)]
         [] op = "DIV" ->
              IF y.num = 0 THEN [st |-> "ZeroDivisionError", v |-> x]
              ELSE [st |-> "ok", v |-> Frac(FALSE, x.num * y.den, x.den * y.num)]
         [] op = "FLOOR_DIV" ->
              IF y.num = 0 THEN [st |-> "ZeroDivisionError", v |-> x]
              ELSE [st |-> "ok", v |-> Frac(both, FracFloor(x, y), 1)]
         [] op = "MOD" ->
              IF y.num = 0 THEN [st |-> "ZeroDivisionError", v |-> x]
              ELSE [st |-> "ok",
                    v |-> Frac(both, x.num * y.den - FracFloor(x, y) * y.num * x.den,
                               x.den * y.den)]
         [] op = "EXP" ->
              IF y.den # 1 THEN [st |-> "Unmodelled", v |-> x]
              ELSE IF y.num >= 0
              THEN [st |-> "ok", v |-> [FracPow(x, y.num) EXCEPT !.isint = both]]
              ELSE IF x.num = 0 THEN [st |-> "ZeroDivisionError", v |-> x]
              ELSE [st |-> "ok",
                    v |-> [FracPow(Frac(FALSE, x.den, x.num), -y.num) EXCEPT !.isint = FALSE]]

Compare(op, x, y) ==
    LET l == x.num * y.den
        r == y.num * x.den
    IN CASE op = "LESS" -> l < r
         [] op = "GREATER" -> l > r
         [] op = "LESS_EQUAL" -> l <= r
         [] op = "GREATER_EQUAL" -> l >= r

----------------------------------------------------------------------------
(* Results.  An evaluator operation returns [st, v, h]: st is "ok" or the *)
(* name of the exception raised, v the value returned, h the heap after.  *)

Ok(H, v) == [st |-> "ok", v |-> v, h |-> H]
Err(H, e) == [st |-> e, v |-> Hole, h |-> H]

AllocDict(H, d) == [H EXCEPT !.dicts = Append(@, d)]
AllocList(H) == [H EXCEPT !.nlist = @ + 1]

make_bool(x) == IF x THEN TRUE_ ELSE FALSE_

wrap_inferred_number_type(x) ==
    IF x.isint THEN IntObj(x.num) ELSE Float(<<x.num, x.den>>)

\* unpack_number: v is the number, TypeError for any other object
unpack_number(H, o) ==
    IF o.k = "Int" THEN Ok(H, Frac(TRUE, o.ival, 1))
    ELSE IF o.k = "Float" THEN Ok(H, Frac(FALSE, o.fval[1], o.fval[2]))
    ELSE Err(H, "TypeError")

----------------------------------------------------------------------------
(* Pattern matcher, src/scrapscript.py 1381-1447 *)
(* match returns [st, v, h]; v is <<>> for None and <<bindings>> for a    *)
(* dict of bindings.                                                      *)

NoMatch(H) == Ok(H, <<>>)

\* every field of obj kept
rest_record_all(data, seen_keys) == Record(data)

\* {key: obj.data[key] for key in rest_keys}
rest_record(data, seen_keys) ==
    Record(SelectSeq(data, LAMBDA e : e.key \notin seen_keys))

\* the whole of obj.items
spread_rest_all(items, i) == items

\* obj.items[i:], i the 0-based index of the Spread
spread_rest(items, i) == SubSeq(items, i + 1, Len(items))

\* the branch of match taken for a Float pattern
match_float(H, o, pattern) == Err(H, "MatchError")

\* None returned for every other kind of pattern
match_other_none(H, o, pattern) == Ok(H, <<>>)

\* the last statement of match, reached by every other kind of pattern
match_other(H, o, pattern) == Err(H, "NotImplementedError")

RECURSIVE match(_, _, _), match_record(_, _, _, _, _), match_list(_, _, _, _, _)

\* the loop over pattern.data.items(); items is what is left of it
match_record(H, o, items, seen_keys, result) ==
    IF items = <<>> THEN Ok(H, <<FALSE, result>>)
    ELSE LET key == Head(items).key
             pattern_item == Head(items).val
         IN IF pattern_item.k = "Spread"
            THEN IF pattern_item.sname # <<>>
                 THEN Ok(H, <<TRUE, DictSet(result, pattern_item.sname[1],
                                            rest_record(o.data, seen_keys))>>)
                 ELSE Ok(H, <<TRUE, result>>)
            ELSE IF ~DictHas(o.data, key) THEN NoMatch(H)
            ELSE LET part == match(H, DictGet(o.data, key), pattern_item)
                 IN IF part.st # "ok" \/ part.v = <<>> THEN part
                    ELSE match_record(part.h, o, Tail(items), seen_keys \cup {key},
                                      DictMerge(result, part.v[1]))

\* the loop over enumerate(pattern.items); i is the 0-based index
match_list(H, o, pattern, i, result) ==
    IF i >= Len(pattern.items) THEN Ok(H, <<FALSE, result>>)
    ELSE LET pattern_item == pattern.items[i + 1]
         IN IF pattern_item.k = "Spread"
            THEN IF pattern_item.sname # <<>>
                 THEN LET H1 == AllocList(H)
                      IN Ok(H1, <<TRUE, DictSet(result, pattern_item.sname[1],
                                     List(H1.nlist, spread_rest(o.items, i)))>>)
                 ELSE Ok(H, <<TRUE, result>>)
            ELSE IF i >= Len(o.items) THEN NoMatch(H)
            ELSE LET part == match(H, o.items[i + 1], pattern_item)
                 IN IF part.st # "ok" \/ part.v = <<>> THEN part
                    ELSE match_list(part.h, o, pattern, i + 1, DictMerge(result, part.v[1]))

match(H, o, pattern) ==
    CASE pattern.k = "Hole" -> IF o.k = "Hole" THEN Ok(H, << <<>> >>) ELSE NoMatch(H)
      [] pattern.k = "Int" ->
           IF o.k = "Int" /\ o.ival = pattern.ival THEN Ok(H, << <<>> >>) ELSE NoMatch(H)
      [] pattern.k = "Float" -> match_float(H, o, pattern)
      [] pattern.k = "String" ->
           IF o.k = "String" /\ o.sval = pattern.sval THEN Ok(H, << <<>> >>) ELSE NoMatch(H)
      [] pattern.k = "Var" -> Ok(H, <<Dict(<< <<pattern.name, o>> >>)>>)
      [] pattern.k = "Variant" ->
           IF o.k # "Variant" THEN NoMatch(H)
           ELSE IF o.tag # pattern.tag THEN NoMatch(H)
           ELSE match(H, o.value, pattern.value)
      [] pattern.k = "Record" ->
           IF o.k # "Record" THEN NoMatch(H)
           ELSE LET r == match_record(H, o, pattern.data, {}, <<>>)
                IN IF r.st # "ok" \/ r.v = <<>> THEN r
                   ELSE IF ~r.v[1] /\ Len(pattern.data) # Len(o.data) THEN NoMatch(r.h)
                   ELSE Ok(r.h, <<r.v[2]>>)
      [] pattern.k = "List" ->
           IF o.k # "List" THEN NoMatch(H)
           ELSE LET r == match_list(H, o, pattern, 0, <<>>)
                IN IF r.st # "ok" \/ r.v = <<>> THEN r
                   ELSE IF ~r.v[1] /\ Len(pattern.items) # Len(o.items) THEN NoMatch(r.h)
                   ELSE Ok(r.h, <<r.v[2]>>)
      [] OTHER -> match_other(H, o, pattern)

----------------------------------------------------------------------------
(* Free variables and closure minimization, src/scrapscript.py 1450-1503 *)
(* free_in returns [st, v]: v is the set of names.                        *)

RECURSIVE free_in(_, _), free_in_all(_, _)

\* set.union(*(free_in(x) for x in xs)), the elements visited in order
free_in_all(H, xs) ==
    IF xs = <<>> THEN [st |-> "ok", v |-> {}]
    ELSE LET h == free_in(H, Head(xs))
             t == free_in_all(H, Tail(xs))
         IN IF h.st # "ok" THEN h
            ELSE IF t.st # "ok" THEN t
            ELSE [st |-> "ok", v |-> h.v \cup t.v]

free_in(H, exp) ==
    CASE exp.k \in {"Int", "Float", "String", "Bytes", "Hole", "NativeFunction"} ->
           [st |-> "ok", v |-> {}]
      [] exp.k = "Variant" -> free_in(H, exp.value)
      [] exp.k = "Var" -> [st |-> "ok", v |-> {exp.name}]
      [] exp.k = "Spread" ->
           [st |-> "ok", v |-> IF exp.sname # <<>> THEN {exp.sname[1]} ELSE {}]
      [] exp.k = "Binop" -> free_in_all(H, <<exp.left, exp.right>>)
      [] exp.k = "List" -> free_in_all(H, exp.items)
      [] exp.k = "Record" -> free_in_all(H, [i \in 1..Len(exp.data) |-> exp.data[i].val])
      [] exp.k = "Function" ->
           IF exp.arg.k # "Var" THEN [st |-> "AssertionError", v |-> {}]
           ELSE LET b == free_in(H, exp.body)
                IN IF b.st # "ok" THEN b ELSE [st |-> "ok", v |-> b.v \ {exp.arg.name}]
      [] exp.k = "MatchFunction" -> free_in_all(H, exp.cases)
      [] exp.k = "MatchCase" ->
           LET b == free_in(H, exp.body)
               p == free_in(H, exp.pattern)
           IN IF b.st # "ok" THEN b
              ELSE IF p.st # "ok" THEN p
              ELSE [st |-> "ok", v |-> b.v \ p.v]
      [] exp.k = "Apply" -> free_in_all(H, <<exp.func, exp.arg>>)
      [] exp.k = "Access" -> free_in_all(H, <<exp.obj, exp.at>>)
      [] exp.k = "Where" ->
           IF exp.binding.k # "Assign" THEN [st |-> "AssertionError", v |-> {}]
           ELSE LET b == free_in(H, exp.body)
                    a == free_in(H, exp.binding)
                IN IF b.st # "ok" THEN b
                   ELSE IF a.st # "ok" THEN a
                   ELSE [st |-> "ok", v |-> (b.v \ {exp.binding.target.name}) \cup a.v]
      [] exp.k = "Assign" -> free_in(H, exp.value)
      [] exp.k = "Closure" -> free_in(H, H.clos[exp.addr].func)
      [] OTHER -> [st |-> "NotImplementedError", v |-> {}]

\* the dict comprehension of improve_closure
\* every binding of env kept
improved_env_all(env, freevars) == env
improved_env(env, freevars) == SelectSeq(env, LAMBDA e : e.key \in freevars)

\* improve_closure(Closure(env, func)), env the address of a dict: v is the new Closure
improve_closure(H, env, func) ==
    LET freevars == free_in(H, func)
        H1 == AllocDict(H, improved_env(H.dicts[env], freevars.v))
        H2 == [H1 EXCEPT !.clos = Append(@, [env |-> Len(H1.dicts), func |-> func])]
    IN IF freevars.st # "ok" THEN Err(H, freevars.st)
       ELSE Ok(H2, Closure(Len(H2.clos)))

----------------------------------------------------------------------------
(* Evaluator, src/scrapscript.py 1306-1604 *)
(* env is the address of the environment dict; fuel bounds the depth of   *)
(* the recursion (Python raises RecursionError when its stack is full).   *)

RECURSIVE eval_exp(_, _, _, _)

eval_number(H, env, exp, fuel) ==
    LET result == eval_exp(H, env, exp, fuel)
    IN IF result.st # "ok" THEN result ELSE unpack_number(result.h, result.v)

eval_str(H, env, exp, fuel) ==
    LET result == eval_exp(H, env, exp, fuel)
    IN IF result.st # "ok" THEN result
       ELSE IF result.v.k # "String" THEN Err(result.h, "TypeError")
       ELSE Ok(result.h, result.v.sval)

eval_bool(H, env, exp, fuel) ==
    LET result == eval_exp(H, env, exp, fuel)
    IN IF result.st # "ok" THEN result
       ELSE IF result.v.k # "Variant" THEN Err(result.h, "TypeError")
       ELSE IF result.v.tag \notin {"true", "false"} THEN Err(result.h, "TypeError")
       ELSE Ok(result.h, result.v.tag = "true")

eval_list(H, env, exp, fuel) ==
    LET result == eval_exp(H, env, exp, fuel)
    IN IF result.st # "ok" THEN result
       ELSE IF result.v.k # "List" THEN Err(result.h, "TypeError")
       ELSE Ok(result.h, result.v.items)

\* the handlers of ADD, SUB, MUL, DIV, FLOOR_DIV, EXP and MOD
arith_handler(op, H, env, x, y, fuel) ==
    LET a == eval_number(H, env, x, fuel)
        b == eval_number(a.h, env, y, fuel)
        r == Arith(op, a.v, b.v)
    IN IF a.st # "ok" THEN a
       ELSE IF b.st # "ok" THEN b
       ELSE IF r.st # "ok" THEN Err(b.h, r.st)
       ELSE Ok(b.h, wrap_inferred_number_type(r.v))

\* the handlers of EQUAL and NOT_EQUAL
equal_handler(op, H, env, x, y, fuel) ==
    LET a == eval_exp(H, env, x, fuel)
        b == eval_exp(a.h, env, y, fuel)
        e == PyEq(b.h, a.v, b.v, fuel)
    IN IF a.st # "ok" THEN a
       ELSE IF b.st # "ok" THEN b
       ELSE IF e = "RecursionError" THEN Err(b.h, e)
       ELSE Ok(b.h, make_bool((e = "eq") = (op = "EQUAL")))

\* the handlers of LESS, GREATER, LESS_EQUAL and GREATER_EQUAL
compare_handler(op, H, env, x, y, fuel) ==
    LET a == eval_number(H, env, x, fuel)
        b == eval_number(a.h, env, y, fuel)
    IN IF a.st # "ok" THEN a
       ELSE IF b.st # "ok" THEN b
       ELSE Ok(b.h, make_bool(Compare(op, a.v, b.v)))

\* the handlers of BOOL_AND and BOOL_OR: Python's and / or skip the right operand
bool_handler(op, H, env, x, y, fuel) ==
    LET a == eval_bool(H, env, x, fuel)
        b == eval_bool(a.h, env, y, fuel)
    IN IF a.st # "ok" THEN a
       ELSE IF a.v = (op = "BOOL_OR") THEN Ok(a.h, make_bool(a.v))
       ELSE IF b.st # "ok" THEN b
       ELSE Ok(b.h, make_bool(b.v))

string_concat_handler(H, env, x, y, fuel) ==
    LET a == eval_str(H, env, x, fuel)
        b == eval_str(a.h, env, y, fuel)
    IN IF a.st # "ok" THEN a
       ELSE IF b.st # "ok" THEN b
       ELSE Ok(b.h, String(a.v \o b.v))

list_cons_handler(H, env, x, y, fuel) ==
    LET a == eval_exp(H, env, x, fuel)
        b == eval_list(a.h, env, y, fuel)
        H1 == AllocList(b.h)
    IN IF a.st # "ok" THEN a
       ELSE IF b.st # "ok" THEN b
       ELSE Ok(H1, List(H1.nlist, <<a.v>> \o b.v))

list_append_handler(H, env, x, y, fuel) ==
    LET a == eval_list(H, env, x, fuel)
        b == eval_exp(a.h, env, y, fuel)
        H1 == AllocList(b.h)
    IN IF a.st # "ok" THEN a
       ELSE IF b.st # "ok" THEN b
       ELSE Ok(H1, List(H1.nlist, Append(a.v, b.v)))

\* the left operand evaluated and discarded, then the right operand
right_eval_handler_both(H, env, x, y, fuel) ==
    LET a == eval_exp(H, env, x, fuel)
    IN IF a.st # "ok" THEN a ELSE eval_exp(a.h, env, y, fuel)
\* BINOP_HANDLERS[BinopKind.RIGHT_EVAL]
right_eval_handler(H, env, x, y, fuel) == eval_exp(H, env, y, fuel)

\* BINOP_HANDLERS.get(exp.op) applied to (env, exp.left, exp.right)
binop_handler(op, H, env, x, y, fuel) ==
    CASE op \in {"ADD", "SUB", "MUL", "DIV", "FLOOR_DIV", "EXP", "MOD"} ->
           arith_handler(op, H, env, x, y, fuel)
      [] op \in {"EQUAL", "NOT_EQUAL"} -> equal_handler(op, H, env, x, y, fuel)
      [] op \in {"LESS", "GREATER", "LESS_EQUAL", "GREATER_EQUAL"} ->
           compare_handler(op, H, env, x, y, fuel)
      [] op \in {"BOOL_AND", "BOOL_OR"} -> bool_handler(op, H, env, x, y, fuel)
      [] op = "STRING_CONCAT" -> string_concat_handler(H, env, x, y, fuel)
      [] op = "LIST_CONS" -> list_cons_handler(H, env, x, y, fuel)
      [] op = "LIST_APPEND" -> list_append_handler(H, env, x, y, fuel)
      [] op = "RIGHT_EVAL" -> right_eval_handler(H, env, x, y, fuel)
      [] OTHER -> Err(H, "NotImplementedError")

RECURSIVE eval_items(_, _, _, _), eval_data(_, _, _, _), apply_cases(_, _, _, _, _)

\* [eval_exp(env, item) for item in items]
eval_items(H, env, items, fuel) ==
    IF items = <<>> THEN Ok(H, <<>>)
    ELSE LET h == eval_exp(H, env, Head(items), fuel)
             t == eval_items(h.h, env, Tail(items), fuel)
         IN IF h.st # "ok" THEN h
            ELSE IF t.st # "ok" THEN t
            ELSE Ok(t.h, <<h.v>> \o t.v)

\* {k: eval_exp(env, exp.data[k]) for k in exp.data}
eval_data(H, env, data, fuel) ==
    IF data = <<>> THEN Ok(H, <<>>)
    ELSE LET h == eval_exp(H, env, Head(data).val, fuel)
             t == eval_data(h.h, env, Tail(data), fuel)
         IN IF h.st # "ok" THEN h
            ELSE IF t.st # "ok" THEN t
            ELSE Ok(t.h, <<[key |-> Head(data).key, val |-> h.v]>> \o t.v)

\* the closure's environment left as it was created
install_self_binding_none(H, a, name) == H
\* value.env[exp.name.name] = value, for the Closure at address a
install_self_binding(H, a, name) ==
    [H EXCEPT !.dicts[H.clos[a].env] = DictSet(@, name, Closure(a))]

\* EnvObject({exp.name.name: value})
assign_env_object_single(H, env, name, value) ==
    LET H1 == AllocDict(H, DictSet(<<>>, name, value))
    IN Ok(H1, EnvObject(Len(H1.dicts)))
\* EnvObject({**env, exp.name.name: value})
assign_env_object(H, env, name, value) ==
    LET H1 == AllocDict(H, DictSet(H.dicts[env], name, value))
    IN Ok(H1, EnvObject(Len(H1.dicts)))

\* new_env made by updating env itself
where_env_inplace(H, env, res_env) ==
    Ok([H EXCEPT !.dicts[env] = DictMerge(@, H.dicts[res_env])], env)
\* new_env = {**env, **res_env.env}: v is the address of new_env
where_env(H, env, res_env) ==
    LET H1 == AllocDict(H, DictMerge(H.dicts[env], H.dicts[res_env]))
    IN Ok(H1, Len(H1.dicts))

\* new_env = {**callee.env, callee.func.arg.name: arg}: v is the address of new_env
function_call_env(H, callee, arg) ==
    LET c == H.clos[callee.addr]
        H1 == AllocDict(H, DictSet(H.dicts[c.env], c.func.arg.name, arg))
    IN Ok(H1, Len(H1.dicts))

\* {**callee.env, **m}: v is the address of the new dict
case_env(H, callee, m) ==
    LET H1 == AllocDict(H, DictMerge(H.dicts[H.clos[callee.addr].env], m))
    IN Ok(H1, Len(H1.dicts))

\* every other case tried
next_case_skip(i) == i + 2
\* the index of the first case the loop of eval_exp tries; cases are tried
\* in this order: i, i + 1, ...
next_case(i) == i + 1

\* the loop over callee.func.cases, from case i on
apply_cases(H, callee, arg, i, fuel) ==
    LET cases == H.clos[callee.addr].func.cases
    IN IF i > Len(cases) THEN Err(H, "MatchError")
       ELSE LET m == match(H, arg, cases[i].pattern)
                e == case_env(m.h, callee, m.v[1])
            IN IF m.st # "ok" THEN m
               ELSE IF m.v = <<>> THEN apply_cases(m.h, callee, arg, next_case(i), fuel)
               ELSE eval_exp(e.h, e.v, cases[i].body, fuel)

\* callee.func(arg) for the NativeFunctions of STDLIB that do no I/O
native_call(H, callee, arg) ==
    CASE callee.nname = "$$listlength" ->
           IF arg.k # "List" THEN Err(H, "TypeError") ELSE Ok(H, IntObj(Len(arg.items)))
      [] callee.nname = "$$serialize" ->
           LET S == serialize(NewSerializer, H, arg)
           IN IF S.st # "ok" THEN Err(H, S.st) ELSE Ok(H, Bytes(S.output))
      [] callee.nname = "$$deserialize" ->
           LET r == parse(arg.bval, NewDeserializer(H))
           IN IF arg.k # "Bytes" THEN Err(H, "AssertionError")
              ELSE IF r.d.st # "ok" THEN Err(r.d.heap, r.d.st)
              ELSE Ok(r.d.heap, r.v)
      [] OTHER -> Err(H, "Unmodelled")

eval_exp(H, env, exp, fuel1) ==
    LET fuel == fuel1 - 1 IN
    IF fuel1 = 0 THEN Err(H, "RecursionError")
    ELSE CASE exp.k \in {"Int", "Float", "String", "Bytes", "Hole", "Closure",
                         "NativeFunction"} -> Ok(H, exp)
      [] exp.k = "Variant" ->
           LET r == eval_exp(H, env, exp.value, fuel)
           IN IF r.st # "ok" THEN r ELSE Ok(r.h, Variant(exp.tag, r.v))
      [] exp.k = "Var" ->
           IF ~DictHas(H.dicts[env], exp.name) THEN Err(H, "NameError")
           ELSE Ok(H, DictGet(H.dicts[env], exp.name))
      [] exp.k = "Binop" -> binop_handler(exp.op, H, env, exp.left, exp.right, fuel)
      [] exp.k = "List" ->
           LET r == eval_items(H, env, exp.items, fuel)
               H1 == AllocList(r.h)
           IN IF r.st # "ok" THEN r ELSE Ok(H1, List(H1.nlist, r.v))
      [] exp.k = "Record" ->
           LET r == eval_data(H, env, exp.data, fuel)
           IN IF r.st # "ok" THEN r ELSE Ok(r.h, Record(r.v))
      [] exp.k = "Assign" ->
           LET r == eval_exp(H, env, exp.value, fuel)
               H1 == install_self_binding(r.h, r.v.addr, exp.target.name)
               c == H1.clos[r.v.addr]
               value == improve_closure(H1, c.env, c.func)
           IN IF exp.target.k # "Var" THEN Err(H, "AssertionError")
              ELSE IF r.st # "ok" THEN r
              ELSE IF r.v.k # "Closure"
              THEN assign_env_object(r.h, env, exp.target.name, r.v)
              ELSE IF value.st # "ok" THEN value
              ELSE assign_env_object(value.h, env, exp.target.name, value.v)
      [] exp.k = "Where" ->
           LET res_env == eval_exp(H, env, exp.binding, fuel)
               new_env == where_env(res_env.h, env, res_env.v.envd)
           IN IF exp.binding.k # "Assign" THEN Err(H, "AssertionError")
              ELSE IF res_env.st # "ok" THEN res_env
              ELSE IF res_env.v.k # "EnvObject" THEN Err(res_env.h, "AssertionError")
              ELSE eval_exp(new_env.h, new_env.v, exp.body, fuel)
      [] exp.k = "Assert" ->
           LET cond == eval_exp(H, env, exp.cond, fuel)
               e == PyEq(cond.h, cond.v, TRUE_, fuel)
           IN IF cond.st # "ok" THEN cond
              ELSE IF e # "eq" THEN Err(cond.h, "AssertionError")
              ELSE eval_exp(cond.h, env, exp.value, fuel)
      [] exp.k = "Function" ->
           IF exp.arg.k # "Var" THEN Err(H, "RuntimeError")
           ELSE improve_closure(H, env, exp)
      [] exp.k = "MatchFunction" -> improve_closure(H, env, exp)
      [] exp.k = "Apply" ->
           IF exp.func.k = "Var" /\ exp.func.name = "$$quote" THEN Ok(H, exp.arg)
           ELSE LET callee == eval_exp(H, env, exp.func, fuel)
                    arg == eval_exp(callee.h, env, exp.arg, fuel)
                    new_env == function_call_env(arg.h, callee.v, arg.v)
                IN IF callee.st # "ok" THEN callee
                   ELSE IF arg.st # "ok" THEN arg
                   ELSE IF callee.v.k = "NativeFunction"
                   THEN native_call(arg.h, callee.v, arg.v)
                   ELSE IF callee.v.k # "Closure" THEN Err(arg.h, "TypeError")
                   ELSE IF arg.h.clos[callee.v.addr].func.k = "Function"
                   THEN IF arg.h.clos[callee.v.addr].func.arg.k # "Var"
                        THEN Err(arg.h, "AssertionError")
                        ELSE eval_exp(new_env.h, new_env.v,
                                      arg.h.clos[callee.v.addr].func.body, fuel)
                   ELSE IF arg.h.clos[callee.v.addr].func.k = "MatchFunction"
                   THEN apply_cases(arg.h, callee.v, arg.v, 1, fuel)
                   ELSE Err(arg.h, "TypeError")
      [] exp.k = "Access" ->
           LET o == eval_exp(H, env, exp.obj, fuel)
               access_at == eval_exp(o.h, env, exp.at, fuel)
           IN IF o.st # "ok" THEN o
              ELSE IF o.v.k = "Record"
              THEN IF exp.at.k # "Var" THEN Err(o.h, "TypeError")
                   ELSE IF ~DictHas(o.v.data, exp.at.name) THEN Err(o.h, "NameError")
                   ELSE Ok(o.h, DictGet(o.v.data, exp.at.name))
              ELSE IF o.v.k = "List"
              THEN IF access_at.st # "ok" THEN access_at
                   ELSE IF access_at.v.k # "Int" THEN Err(access_at.h, "TypeError")
                   ELSE IF access_at.v.ival < 0 \/ access_at.v.ival >= Len(o.v.items)
                   THEN Err(access_at.h, "ValueError")
                   ELSE Ok(access_at.h, o.v.items[access_at.v.ival + 1])
              ELSE Err(o.h, "TypeError")
      [] exp.k = "Spread" -> Err(H, "RuntimeError")
      [] OTHER -> Err(H, "NotImplementedError")

----------------------------------------------------------------------------
(* The initial heap: STDLIB, src/scrapscript.py 5915-5922 ($$fetch and     *)
(* $$jsondecode, which do I/O, are left out).  dicts[1] is STDLIB itself, *)
(* dicts[2] the empty environment of the $$add closure.                   *)

STDLIB ==
    [dicts |-> << Dict(<< <<"$$add", Closure(1)>>,
                          <<"$$serialize", NativeFunction("$$serialize")>>,
                          <<"$$deserialize", NativeFunction("$$deserialize")>>,
                          <<"$$listlength", NativeFunction("$$listlength")>> >>),
                  <<>> >>,
     clos |-> << [env |-> 2,
                  func |-> Function(Var("x"),
                               Function(Var("y"), Binop("ADD", Var("x"), Var("y"))))] >>,
     nlist |-> 0]

\* eval_exp(STDLIB, parse(tokenize(source))) for the tree e that parse returns
Run(e) ==
    LET l == Label(e, 0)
    IN eval_exp([STDLIB EXCEPT !.nlist = l.n], 1, l.v, MaxFuel)

RECURSIVE Kinds(_, _), KindsAll(_, _)
KindsAll(H, xs) == UNION {Kinds(H, xs[i]) : i \in 1..Len(xs)}
\* the classes of the nodes of the tree e (a Closure or EnvObject is a leaf)
Kinds(H, e) ==
    {e.k} \cup
    CASE e.k = "List" -> KindsAll(H, e.items)
      [] e.k = "Record" -> KindsAll(H, [i \in 1..Len(e.data) |-> e.data[i].val])
      [] e.k = "MatchFunction" -> KindsAll(H, e.cases)
      [] e.k = "MatchCase" -> KindsAll(H, <<e.pattern, e.body>>)
      [] e.k = "Variant" -> Kinds(H, e.value)
      [] e.k = "Binop" -> KindsAll(H, <<e.left, e.right>>)
      [] e.k = "Assign" -> KindsAll(H, <<e.target, e.value>>)
      [] e.k = "Function" -> KindsAll(H, <<e.arg, e.body>>)
      [] e.k = "Apply" -> KindsAll(H, <<e.func, e.arg>>)
      [] e.k = "Where" -> KindsAll(H, <<e.body, e.binding>>)
      [] e.k = "Assert" -> KindsAll(H, <<e.value, e.cond>>)
      [] e.k = "Access" -> KindsAll(H, <<e.obj, e.at>>)
      [] OTHER -> {}

NoCall == [env |-> 0, exp |-> Hole, heap |-> EmptyHeap]
NoSer == NewSerializer
NoDe == [d |-> NewDeserializer(EmptyHeap), v |-> Hole]
NoRes == Ok(EmptyHeap, Hole)
NoTypes == [tv |-> <<>>, n |-> 0]
NoUnify == [ty1 |-> [k |-> "TyEmptyRow"], ty2 |-> [k |-> "TyEmptyRow"], before |-> NoTypes, out |-> [st |-> "ok", T |-> NoTypes]]
NoText == [st |-> "ok", v |-> <<>>]
TypesIdle == types = NoTypes /\ ucall = NoUnify /\ inferred = NoText
TextIdle == text = <<>> /\ toks = NoText /\ tree = NoText /\ printed = NoText /\ back = NoText /\ cache = <<>>

----------------------------------------------------------------------------
(* SpecSerde: serialize(obj) followed by deserialize(flat),               *)
(* src/scrapscript.py 5898-5912.  The objects are parser output and the   *)
(* closures that evaluating a definition yields.                          *)

\* sources whose value is a closure
ClosureSources ==
    {Where(b, Assign(Var("f"), Function(Var("x"), body))) :
        b \in {Var("f"), Apply(Var("f"), IntObj(1))},
        body \in {Var("f"), Var("x"), L(<<Var("f")>>), L(<<Var("x"), L(<<>>)>>),
                  Apply(Var("f"), L(<<Var("x")>>))}}
    \cup {Where(Var("g"), Assign(Var("g"), MatchFunction(<<
              MatchCase(L(<<>>), IntObj(0)),
              MatchCase(L(<<Var("x"), Spread(<<"y">>)>>), Apply(Var("g"), Var("y")))>>))),
          Function(Var("x"), L(<<Var("x")>>)),
          Where(Function(Var("x"), Var("a")), Assign(Var("a"), L(<<IntObj(1)>>)))}

SerdeInputs ==
    {[obj |-> Label(e, 0).v, heap |-> [STDLIB EXCEPT !.nlist = Label(e, 0).n]] :
        e \in Atoms \cup Shallow \cup Nested}
    \cup {[obj |-> r.v, heap |-> r.h] : r \in {Run(e) : e \in ClosureSources}}

SerdeInit ==
    /\ phase = "start"
    /\ \E i \in SerdeInputs : obj = i.obj /\ heap = i.heap
    /\ ser = NoSer /\ de = NoDe
    /\ menv = 0 /\ prev = NoCall /\ res = NoRes
    /\ mobj = Hole /\ mpat = Hole /\ mres = NoRes
    /\ TypesIdle /\ TextIdle

\* serialize(obj): a new Serializer serializes obj
Serialize ==
    /\ phase = "start"
    /\ ser' = serialize(NewSerializer, heap, obj)
    /\ phase' = "serialized"
    /\ UNCHANGED <<heap, obj, de, menv, prev, res, mobj, mpat, mres, typevars, textvars>>

\* deserialize(data): a new Deserializer parses the serializer's output
Deserialize ==
    /\ phase = "serialized"
    /\ ser.st = "ok"
    /\ de' = parse(ser.output, NewDeserializer(heap))
    /\ phase' = "deserialized"
    /\ UNCHANGED <<heap, obj, ser, menv, prev, res, mobj, mpat, mres, typevars, textvars>>

SerdeNext == Serialize \/ Deserialize

SpecSerde == SerdeInit /\ [][SerdeNext]_vars

----------------------------------------------------------------------------
(* Properties of serialize and deserialize, checked under SpecSerde *)

ClosureFree(H, o) == Kinds(H, o) \cap {"Closure", "EnvObject", "NativeFunction"} = {}

\* C1: for every object without Closure, EnvObject or NativeFunction nodes,
\* Assert nodes and every BinopKind included, serialize succeeds and
\* deserializing its output returns an object equal to the original.
C1_RoundTrip ==
    (phase # "start" /\ ClosureFree(heap, obj)) =>
        /\ ser.st = "ok"
        /\ phase = "deserialized" =>
              /\ de.d.st = "ok"
              /\ PyEq(de.d.heap, de.v, obj, MaxFuel) = "eq"

\* the object that entry i of the deserializer's ref table holds
DeRef(i) ==
    IF de.d.refs[i].rk = "Closure" THEN Closure(de.d.refs[i].id) ELSE ListRef(de.d.refs[i].id)

\* C2: the deserializer's ref table grows in the serializer's order (every
\* List and Closure is added before its children are read), so entry i of
\* both tables is the same kind of object, and a back-reference found in a
\* closure's environment resolves to the counterpart of the object it named.
C2_RefTablesCorrespond ==
    phase = "deserialized" =>
        /\ de.d.st = "ok"
        /\ Len(de.d.refs) = Len(ser.refs)
        /\ \A i \in 1..Len(ser.refs) : de.d.refs[i].rk = ser.refs[i].rk
        /\ \A i \in 1..Len(ser.refs) :
              ser.refs[i].rk = "Closure" =>
                 LET src == heap.dicts[heap.clos[ser.refs[i].id].env]
                     dst == de.d.heap.dicts[de.d.heap.clos[de.d.refs[i].id].env]
                 IN /\ Len(dst) = Len(src)
                    /\ \A n \in 1..Len(src) : \A j \in 1..Len(ser.refs) :
                          (src[n].val.k = "Closure" /\ ser.refs[j] = RefKey(src[n].val))
                              => dst[n].val = DeRef(j)


----------------------------------------------------------------------------
(* SpecEval: a chain of ScrapMonad.bind calls, src/scrapscript.py         *)
(* 1607-1617, starting from ScrapMonad(STDLIB): each bind evaluates a      *)
(* parsed source by eval_exp in the monad's environment and returns a     *)
(* monad over a new, extended environment.  A chain is up to MaxBinds     *)
(* definitions and then one source.                                       *)

Fn(x, b) == Function(Var(x), b)
Let(n, v) == Assign(Var(n), v)

\* definitions entered one at a time
Definitions ==
    {Let("a", IntObj(1)),
     Let("f", Fn("x", Var("f"))),
     Let("g", Var("f")),
     Let("f", Fn("x", Var("g"))),
     Let("b", L(<<Var("a"), IntObj(2)>>))}

FunctionSources ==
    {Fn("x", Var("a")), Fn("x", Var("x")), Fn("x", L(<<Var("a"), Var("f"), Var("z")>>)),
     Fn("x", AssertObj(Var("x"), TRUE_)), Function(IntObj(1), Var("a")),
     Fn("a", Fn("x", Binop("ADD", Var("a"), Var("b")))),
     MatchFunction(<<>>),
     MatchFunction(<<MatchCase(Var("y"), Var("a")), MatchCase(IntObj(1), Var("y"))>>),
     MatchFunction(<<MatchCase(L(<<Var("x"), Spread(<<"a">>)>>), L(<<Var("a"), Var("b")>>))>>)}

ApplySources ==
    {Apply(Var("f"), IntObj(1)), Apply(Var("g"), IntObj(1)),
     Apply(Apply(Var("$$add"), IntObj(1)), Var("a")),
     Apply(Fn("x", Var("g")), IntObj(1)),
     Apply(Var("$$listlength"), Var("b")),
     Apply(Var("$$deserialize"),
           Apply(Var("$$serialize"), Fn("x", L(<<Var("x"), Var("a")>>)))),
     Apply(Var("$$serialize"), Fn("x", Binop("FLOOR_DIV", Var("x"), IntObj(2)))),
     Apply(IntObj(1), IntObj(2)),
     \* f 3 . f = ((y -> x) >> (z -> x))
     Where(Apply(Var("f"), IntObj(3)),
           Let("f", Fn("$v0", Apply(Fn("z", Var("x")), Apply(Fn("y", Var("x")), Var("$v0")))))),
     \* fact 3 . fact = | 0 -> 1 | n -> n * fact (n - 1)
     Where(Apply(Var("f"), IntObj(3)),
           Let("f", MatchFunction(<<
               MatchCase(IntObj(0), IntObj(1)),
               MatchCase(Var("n"), Binop("MUL", Var("n"),
                   Apply(Var("f"), Binop("SUB", Var("n"), IntObj(1)))))>>))),
     \* f 1 . f = x -> f x
     Where(Apply(Var("f"), IntObj(1)), Let("f", Fn("x", Apply(Var("f"), Var("x")))))}

\* (f 1 . g = e) . f = x -> n: a closure created, then applied where g is bound
CallSiteSources ==
    {Where(Where(Apply(Var("f"), IntObj(1)), Let("g", e)), Let("f", Fn("x", Var(n)))) :
        e \in {IntObj(1), Var("f")}, n \in {"g", "z", "x"}}

MatchSources ==
    {Apply(MatchFunction(cs), v) :
        cs \in {<<>>,
                <<MatchCase(IntObj(3), IntObj(4)), MatchCase(IntObj(1), IntObj(2))>>,
                <<MatchCase(Var("x"), Var("x")),
                  MatchCase(Var("y"), Binop("MUL", Var("y"), IntObj(2)))>>,
                <<MatchCase(IntObj(1), Var("a")), MatchCase(Float(<<1, 2>>), IntObj(0)),
                  MatchCase(Var("y"), Var("y"))>>,
                <<MatchCase(L(<<>>), Var("a")),
                  MatchCase(L(<<Var("x"), Spread(<<"a">>)>>), L(<<Var("a"), Var("x")>>)),
                  MatchCase(Var("z"), Var("z"))>>,
                <<MatchCase(Bytes(<<97>>), IntObj(0)), MatchCase(Var("y"), Var("y"))>>},
        v \in {IntObj(1), IntObj(2), L(<<IntObj(1), IntObj(2)>>), Var("a")}}

BinopSources ==
    {Binop("RIGHT_EVAL", l, r) :
        l \in {IntObj(1), Var("a"), Binop("ADD", IntObj(1), String("hi")),
               AssertObj(IntObj(1), FALSE_)},
        r \in {IntObj(2), Var("a"), Let("z", IntObj(1))}}
    \cup {Binop(o, Var("a"), IntObj(2)) : o \in BinopKind}
    \cup {Binop("STRING_CONCAT", String("a"), String("b")),
          Binop("LIST_CONS", IntObj(0), Var("b")), Binop("LIST_APPEND", Var("b"), IntObj(0)),
          Binop("BOOL_OR", TRUE_, Var("z")), Binop("BOOL_AND", TRUE_, IntObj(1)),
          Binop("DIV", IntObj(1), IntObj(0)), Binop("EQUAL", Var("f"), Var("g")),
          Binop("EXP", IntObj(2), IntObj(-1))}

OtherSources ==
    {Var("a"), Var("z"), Spread(<<>>), Variant("t", Var("a")),
     Record(Dict(<< <<"a", Var("a")>>, <<"b", IntObj(2)>> >>)),
     Access(Record(Dict(<< <<"a", IntObj(1)>> >>)), Var("a")),
     Access(Var("b"), IntObj(1)), Access(Var("b"), IntObj(5)),
     AssertObj(Var("a"), Binop("EQUAL", Var("a"), IntObj(1))),
     AssertObj(IntObj(1), FALSE_),
     Where(Binop("ADD", Var("a"), Var("z")), Let("z", IntObj(2))),
     Where(Where(Binop("ADD", Var("y"), Var("z")), Let("y", IntObj(1))), Let("z", IntObj(2))),
     Where(Var("a"), Var("a")),
     Let("z", Binop("ADD", Var("a"), IntObj(1))), Let("z", Var("zz")),
     Let("h", Fn("x", Apply(Var("h"), Var("a")))),
     Let("h", Fn("x", AssertObj(Var("x"), TRUE_)))}

Sources ==
    Definitions \cup FunctionSources \cup ApplySources \cup CallSiteSources
    \cup MatchSources \cup BinopSources \cup OtherSources

EvalInit ==
    /\ phase = 0
    /\ heap = AllocDict(STDLIB, STDLIB.dicts[1])
    /\ menv = Len(heap.dicts)
    /\ prev = NoCall /\ res = NoRes
    /\ obj = Hole /\ ser = NoSer /\ de = NoDe
    /\ mobj = Hole /\ mpat = Hole /\ mres = NoRes
    /\ TypesIdle /\ TextIdle

\* ScrapMonad.bind(exp), for the labelled tree of source e; an exception
\* leaves the monad as it was
bind(e, next) ==
    LET l == Label(e, heap.nlist)
        H0 == [heap EXCEPT !.nlist = l.n]
    IN /\ prev' = [env |-> menv, exp |-> l.v, heap |-> H0]
       /\ res' = eval_exp(H0, menv, l.v, MaxFuel)
       /\ heap' = IF res'.st # "ok" THEN res'.h
                  ELSE AllocDict(res'.h,
                           IF res'.v.k = "EnvObject"
                           THEN DictMerge(res'.h.dicts[menv], res'.h.dicts[res'.v.envd])
                           ELSE DictSet(res'.h.dicts[menv], "_", res'.v))
       /\ menv' = IF res'.st # "ok" THEN menv ELSE Len(heap'.dicts)
       /\ phase' = next
       /\ UNCHANGED <<obj, ser, de, mobj, mpat, mres, typevars, textvars>>

\* bind of a definition
Define ==
    /\ phase < MaxBinds
    /\ \E e \in Definitions : bind(e, phase + 1)

\* bind of a source; the chain ends
Evaluate ==
    /\ phase <= MaxBinds
    /\ \E e \in Sources : bind(e, MaxBinds + 1)

EvalNext == Define \/ Evaluate

SpecEval == EvalInit /\ [][EvalNext]_vars

----------------------------------------------------------------------------
(* Properties of eval_exp, checked under SpecEval.  prev is the call       *)
(* eval_exp(prev.env, prev.exp) made in the heap prev.heap, res its result.*)

Called == phase # 0
\* the environment E the call was made in, as it was before the call
E0 == prev.heap.dicts[prev.env]
ClosureEnvs(H) == {H.clos[i].env : i \in 1..Len(H.clos)}

\* C3: eval_exp(E, e), returning or raising, leaves E with the same names
\* bound to the same values, and every extended environment is a new
\* mapping: no mapping that is not a closure's own environment changes.
C3_EnvironmentUnchanged ==
    Called =>
        /\ Len(res.h.dicts) >= Len(prev.heap.dicts)
        /\ res.h.dicts[prev.env] = E0
        /\ \A a \in 1..Len(prev.heap.dicts) :
              a \notin ClosureEnvs(res.h) => res.h.dicts[a] = prev.heap.dicts[a]

\* a Where extended the environment and its body raised
C3_Witness ==
    /\ Called
    /\ prev.exp.k = "Where"
    /\ res.st = "NameError"
    /\ Len(res.h.dicts) > Len(prev.heap.dicts)

\* the closure that the EnvObject res.v binds to the assigned name
Bound == DictGet(res.h.dicts[res.v.envd], prev.exp.target.name)
\* Assign(f, e) returned, e a closure whose function mentions f free
RecursiveAssign ==
    /\ Called
    /\ prev.exp.k = "Assign"
    /\ res.st = "ok"
    /\ Bound.k = "Closure"
    /\ prev.exp.target.name \in free_in(res.h, res.h.clos[Bound.addr].func).v

C5_ClosureEnvIsRestriction ==
    (Called /\ prev.exp.k \in {"Function", "MatchFunction"} /\ res.st = "ok") =>
        /\ res.v.k = "Closure"
        /\ res.h.clos[res.v.addr].func = prev.exp
        /\ LET d == res.h.dicts[res.h.clos[res.v.addr].env]
               fv == free_in(prev.heap, prev.exp).v
           IN /\ DictKeys(d) = DictKeys(E0) \cap fv
              /\ \A n \in DictKeys(d) : DictGet(d, n) = DictGet(E0, n)

\* a function with a free name that E binds and a free name that E lacks
C5_Witness ==
    /\ Called /\ prev.exp.k = "Function" /\ res.st = "ok"
    /\ DictKeys(res.h.dicts[res.h.clos[res.v.addr].env]) = {"a", "f"}
    /\ "z" \in free_in(prev.heap, prev.exp).v


\* (f a . g = e) . f = x -> n: the closure of x -> n is created in E, bound
\* to f, and applied at a call site where g is bound as well
CallSite(e) ==
    /\ e.k = "Where" /\ e.binding.k = "Assign"
    /\ e.binding.value.k = "Function" /\ e.binding.value.body.k = "Var"
    /\ e.body.k = "Where" /\ e.body.binding.k = "Assign"
    /\ e.body.body.k = "Apply" /\ e.body.body.func = e.binding.target

\* C6: the body of an applied closure sees the bindings captured when the
\* closure was created and the parameter only: a body that is a name which
\* is neither the parameter, nor the closure's own name, nor bound in E
\* raises NameError, whatever the call site binds afterwards.
C6_BodySeesOnlyCapturedNames ==
    (Called /\ CallSite(prev.exp)) =>
        LET fn == prev.exp.binding.value
            n == fn.body.name
        IN n \notin ({fn.arg.name, prev.exp.binding.target.name} \cup DictKeys(E0))
              => res.st = "NameError"

\* the callee and the argument of the call Apply(func, arg) that prev made
Callee == eval_exp(prev.heap, prev.env, prev.exp.func, MaxFuel - 1)
Arg == eval_exp(Callee.h, prev.env, prev.exp.arg, MaxFuel - 1)
\* a closure over a MatchFunction was applied to a value
MatchApplied ==
    /\ Called /\ prev.exp.k = "Apply"
    /\ Callee.st = "ok" /\ Callee.v.k = "Closure"
    /\ Arg.st = "ok"
    /\ Arg.h.clos[Callee.v.addr].func.k = "MatchFunction"
Cases == Arg.h.clos[Callee.v.addr].func.cases
\* the cases whose pattern matches the argument, or raises on it
Hits == {i \in 1..Len(Cases) : LET m == match(Arg.h, Arg.v, Cases[i].pattern)
                               IN m.st # "ok" \/ m.v # <<>>}
FirstHit == CHOOSE i \in Hits : \A j \in Hits : i <= j

\* C7: applying a closure over a MatchFunction tries the cases in source
\* order; the body of the first case whose pattern matches is evaluated in
\* the closure's environment extended with that match's bindings, no later
\* case is tried, and when no case matches the result is MatchError.
C7_FirstMatchingCase ==
    MatchApplied =>
        IF Hits = {} THEN res.st = "MatchError"
        ELSE LET m == match(Arg.h, Arg.v, Cases[FirstHit].pattern)
                 cenv == Arg.h.dicts[Arg.h.clos[Callee.v.addr].env]
                 H1 == AllocDict(m.h, DictMerge(cenv, m.v[1]))
             IN IF m.st # "ok" THEN res.st = m.st
                ELSE res = eval_exp(H1, Len(H1.dicts), Cases[FirstHit].body, MaxFuel - 1)

\* the second case is the first that matches, the third would match too
C7_Witness ==
    /\ MatchApplied
    /\ Hits = {2, 3}
    /\ res.st = "ok"

\* C8 as stated: the EnvObject of Assign(x, e) holds exactly one binding.
C8_EnvObjectHoldsOneBinding ==
    (Called /\ prev.exp.k = "Assign" /\ res.st = "ok") =>
        DictKeys(res.h.dicts[res.v.envd]) = {prev.exp.target.name}

\* C8, amended: the EnvObject of Assign(x, e) evaluated in E is a new
\* mapping that holds every binding of E under another name than x, and x
\* mapped to the value of e (for a closure, its re-minimized copy).
C8_EnvObjectExtendsEnvironment ==
    (Called /\ prev.exp.k = "Assign" /\ res.st = "ok") =>
        LET x == prev.exp.target.name
            d == res.h.dicts[res.v.envd]
            e == eval_exp(prev.heap, prev.env, prev.exp.value, MaxFuel - 1)
        IN /\ res.v.k = "EnvObject"
           /\ res.v.envd > Len(prev.heap.dicts)
           /\ DictKeys(d) = DictKeys(E0) \cup {x}
           /\ \A n \in DictKeys(E0) \ {x} : DictGet(d, n) = DictGet(E0, n)
           /\ e.st = "ok"
           /\ IF e.v.k = "Closure"
              THEN /\ DictGet(d, x).k = "Closure"
                   /\ res.h.clos[DictGet(d, x).addr].func = e.h.clos[e.v.addr].func
              ELSE DictGet(d, x) = e.v

\* x is rebound in an environment that binds other names too
C8_Witness ==
    /\ Called /\ prev.exp.k = "Assign" /\ res.st = "ok"
    /\ prev.exp.target.name = "f"
    /\ {"a", "f"} \subseteq DictKeys(E0)

\* the operator ! was applied
RightEval == Called /\ prev.exp.k = "Binop" /\ prev.exp.op = "RIGHT_EVAL"

\* C9 as stated: a ! b evaluates a first, so an error raised by a propagates.
C9_LeftOperandEvaluatedFirst ==
    RightEval =>
        LET a == eval_exp(prev.heap, prev.env, prev.exp.left, MaxFuel - 1)
        IN a.st # "ok" => res.st = a.st

\* C9, amended: a ! b evaluates b only; its result, value or error, is that
\* of evaluating b in the same environment, whatever a would do.
C9_OnlyRightOperandEvaluated ==
    RightEval => res = eval_exp(prev.heap, prev.env, prev.exp.right, MaxFuel - 1)

\* the left operand would raise, the right operand returns
C9_Witness ==
    /\ RightEval
    /\ eval_exp(prev.heap, prev.env, prev.exp.left, MaxFuel - 1).st = "TypeError"
    /\ res.st = "ok"


----------------------------------------------------------------------------
(* SpecMatch: match(obj, pattern) on values and parser-built patterns *)

MatchValues ==
    {IntObj(1), IntObj(2), Float(<<1, 2>>), String("hi"), String("a"), Bytes(<<97, 98>>),
     Hole, Variant("t", Hole), Variant("t", IntObj(1)), Variant("u", Hole), Closure(1),
     List(1, <<>>), List(1, <<IntObj(1)>>), List(2, <<IntObj(1), List(1, <<>>)>>),
     List(1, <<IntObj(1), IntObj(2), IntObj(3)>>),
     Record(<<>>), Record(Dict(<< <<"a", IntObj(1)>>, <<"b", IntObj(1)>> >>)),
     Record(Dict(<< <<"a", IntObj(1)>> >>)),
     Record(Dict(<< <<"a", Float(<<1, 2>>)>>, <<"b", IntObj(1)>>, <<"c", Hole>> >>))}

MatchPatterns ==
    ParserOutput \cup
    {Label(e, 0).v : e \in
        {L(<<IntObj(1), Float(<<1, 2>>)>>), L(<<IntObj(2), Float(<<1, 2>>)>>),
         L(<<Var("x"), Var("y")>>), L(<<Var("x"), Spread(<<>>)>>),
         L(<<IntObj(1), Bytes(<<97>>)>>), L(<<Spread(<<"r">>)>>),
         Variant("t", Float(<<1, 2>>)), Variant("t", Spread(<<>>)), Variant("t", Var("x")),
         Record(Dict(<< <<"a", Var("x")>>, <<"...", Spread(<<"r">>)>> >>)),
         Record(Dict(<< <<"a", Var("x")>>, <<"b", Var("y")>> >>)),
         Record(Dict(<< <<"a", Float(<<1, 2>>)>>, <<"...", Spread(<<>>)>> >>)),
         Record(Dict(<< <<"a", IntObj(1)>>, <<"b", Fn("x", Var("x"))>> >>)),
         Record(Dict(<< <<"z", IntObj(1)>>, <<"b", Float(<<1, 2>>)>> >>))}}

MatchInit ==
    /\ phase = "start"
    /\ heap = [STDLIB EXCEPT !.nlist = 4]
    /\ mobj \in MatchValues
    /\ mpat \in MatchPatterns
    /\ mres = NoRes
    /\ obj = Hole /\ ser = NoSer /\ de = NoDe
    /\ menv = 0 /\ prev = NoCall /\ res = NoRes
    /\ TypesIdle /\ TextIdle

\* match(obj, pattern)
Match ==
    /\ phase = "start"
    /\ mres' = match(heap, mobj, mpat)
    /\ heap' = mres'.h
    /\ phase' = "matched"
    /\ UNCHANGED <<obj, ser, de, menv, prev, res, mobj, mpat, typevars, textvars>>

MatchNext == Match

SpecMatch == MatchInit /\ [][MatchNext]_vars

----------------------------------------------------------------------------
(* Properties of match, checked under SpecMatch *)

Matched == phase = "matched"

RECURSIVE Supported(_)
\* the pattern is built of the kinds match has a branch for, Float aside,
\* with spreads only as items of a list or values of a record
Supported(p) ==
    CASE p.k \in {"Hole", "Int", "String", "Var"} -> TRUE
      [] p.k = "Variant" -> Supported(p.value)
      [] p.k = "List" ->
           \A i \in 1..Len(p.items) : p.items[i].k = "Spread" \/ Supported(p.items[i])
      [] p.k = "Record" ->
           \A i \in 1..Len(p.data) : p.data[i].val.k = "Spread" \/ Supported(p.data[i].val)
      [] OTHER -> FALSE

\* C10 as stated: match raises nothing but MatchError, and that only on a
\* pattern with a Float in it; otherwise it returns bindings or None.
C10_MatchRaisesOnlyOnFloat ==
    Matched => \/ mres.st = "ok"
               \/ mres.st = "MatchError" /\ "Float" \in Kinds(heap, mpat)

\* C10, amended: match raises MatchError on a Float pattern and
\* NotImplementedError on a pattern of a kind it has no branch for (Bytes,
\* Binop, Function, Apply, a Spread outside a list or record, ...), also when
\* it reaches one inside a list, record or variant; it raises nothing else,
\* and nothing at all on a pattern built of Hole, Int, String, Var, Variant,
\* List and Record with spreads as list items or record values.
C10_MatchRaisesOnFloatOrUnsupported ==
    Matched =>
        /\ mres.st \in {"ok", "MatchError", "NotImplementedError"}
        /\ Supported(mpat) => mres.st = "ok"
        /\ mpat.k = "Float" => mres.st = "MatchError"
        /\ mpat.k \notin {"Hole", "Int", "Float", "String", "Var", "Variant", "Record", "List"}
              => mres.st = "NotImplementedError"
        /\ mres.st = "MatchError" => "Float" \in Kinds(heap, mpat)
        /\ mres.st = "ok" => (mres.v = <<>> \/ Len(mres.v) = 1)

\* a Bytes pattern was reached inside a list pattern
C10_Witness ==
    /\ Matched
    /\ mpat.k = "List" /\ mobj.k = "List"
    /\ "Bytes" \in Kinds(heap, mpat)
    /\ mres.st = "NotImplementedError"

\* the number of items of a List pattern before its Spread (all, without one)
Before(items) ==
    LET sp == {i \in 1..Len(items) : items[i].k = "Spread"}
    IN IF sp = {} THEN Len(items) ELSE (CHOOSE i \in sp : \A j \in sp : i <= j) - 1
\* match(a List value, a List pattern) was called
ListMatched == Matched /\ mobj.k = "List" /\ mpat.k = "List"
\* the first k elements exist and each matches its pattern
ElementsMatch(k) ==
    /\ Len(mobj.items) >= k
    /\ \A i \in 1..k : LET m == match(heap, mobj.items[i], mpat.items[i])
                       IN m.st = "ok" /\ m.v # <<>>

\* C11: for a List of n elements and a List pattern with k element patterns
\* before an optional final Spread, match returns bindings iff the first k
\* elements match and n = k (no Spread) or n >= k (Spread); a named Spread
\* is bound to a new List of the remaining n - k elements in order.
C11_ListPattern ==
    (ListMatched /\ mres.st = "ok") =>
        LET k == Before(mpat.items)
            n == Len(mobj.items)
            spread == k < Len(mpat.items)
        IN /\ (mres.v # <<>>) <=> (ElementsMatch(k) /\ (spread \/ n = k))
           /\ (mres.v # <<>> /\ spread /\ mpat.items[k + 1].sname # <<>>) =>
                 LET rest == DictGet(mres.v[1], mpat.items[k + 1].sname[1])
                 IN /\ rest.k = "List"
                    /\ rest.lid = heap.nlist /\ rest.lid # mobj.lid
                    /\ Len(rest.items) = n - k
                    /\ \A i \in 1..(n - k) : rest.items[i] = mobj.items[k + i]

\* one element pattern, a named Spread, and a value of three elements
C11_Witness ==
    /\ ListMatched /\ mres.st = "ok" /\ mres.v # <<>>
    /\ Len(mpat.items) = 2 /\ mpat.items[2].k = "Spread" /\ mpat.items[2].sname # <<>>
    /\ Len(mobj.items) = 3

\* match(a Record value, a Record pattern ending in a named Spread) was called
RecordSpreadMatched ==
    /\ Matched /\ mobj.k = "Record" /\ mpat.k = "Record"
    /\ Len(mpat.data) > 0
    /\ \A i \in 1..Len(mpat.data) :
          (mpat.data[i].val.k = "Spread") <=> (i = Len(mpat.data))
    /\ mpat.data[Len(mpat.data)].val.sname # <<>>
\* the keys the pattern names before its spread
Named == {mpat.data[i].key : i \in 1..(Len(mpat.data) - 1)}

\* C12: for a Record pattern whose final entry is a named Spread, match
\* succeeds iff every key named before the spread is in the value and its
\* sub-pattern matches, whatever other fields the value has, and the spread
\* name is bound to a Record of exactly the value's fields not named.
C12_RecordSpreadPattern ==
    (RecordSpreadMatched /\ mres.st = "ok") =>
        /\ (mres.v # <<>>) <=>
              \A i \in 1..(Len(mpat.data) - 1) :
                 /\ DictHas(mobj.data, mpat.data[i].key)
                 /\ LET m == match(heap, DictGet(mobj.data, mpat.data[i].key),
                                   mpat.data[i].val)
                    IN m.st = "ok" /\ m.v # <<>>
        /\ (mres.v # <<>>) =>
              LET rest == DictGet(mres.v[1], mpat.data[Len(mpat.data)].val.sname[1])
              IN /\ rest.k = "Record"
                 /\ DictKeys(rest.data) = DictKeys(mobj.data) \ Named
                 /\ Len(rest.data) = Cardinality(DictKeys(rest.data))
                 /\ \A key \in DictKeys(rest.data) :
                       DictGet(rest.data, key) = DictGet(mobj.data, key)

\* the value has one named field and two others
C12_Witness ==
    /\ RecordSpreadMatched /\ mres.st = "ok" /\ mres.v # <<>>
    /\ Named = {"a"}
    /\ Len(mobj.data) = 3


----------------------------------------------------------------------------
(* Types, src/scrapscript.py 4425-4670.  A TyVar is an object whose        *)
(* forwarded field is assigned by make_equal_to: the store T keeps, for    *)
(* every TyVar object, its name and its forwarded field (<<>> is None) in  *)
(* T.tv, and fresh_var_counter in T.n.  A TyVar value is the index of its  *)
(* object; TyCon, TyEmptyRow and TyRow objects are never assigned to and   *)
(* are values.  unify_type returns [st, T]: st is "ok" or the exception.   *)

TyVar(i) == [k |-> "TyVar", id |-> i]
TyCon(name, args) == [k |-> "TyCon", name |-> name, args |-> args]
TyEmptyRow == [k |-> "TyEmptyRow"]
TyRow(fields, rest) == [k |-> "TyRow", fields |-> fields, rest |-> rest]
func_type(a, b) == TyCon("->", <<a, b>>)
list_type(arg) == TyCon("list", <<arg>>)
IntType == TyCon("int", <<>>)
StringType == TyCon("string", <<>>)
FloatType == TyCon("float", <<>>)
BytesType == TyCon("bytes", <<>>)
HoleType == TyCon("hole", <<>>)

\* TyVar(name): a new object, forwarded None
NewTyVar(T, name) == [T EXCEPT !.tv = Append(@, [name |-> name, forwarded |-> <<>>])]

find_self(T, ty) == ty
RECURSIVE find(_, _)
\* TyVar.find: the end of the forwarding chain
find(T, ty) ==
    IF ty.k = "TyVar" /\ T.tv[ty.id].forwarded # <<>>
    THEN find(T, T.tv[ty.id].forwarded[1])
    ELSE ty

\* TyVar.make_equal_to, for a receiver whose chain ends in a TyVar
make_equal_to(T, ty, other) ==
    [T EXCEPT !.tv[find(T, ty).id].forwarded = <<other>>]

RECURSIVE TyEq(_, _, _)
\* the dataclasses' __eq__: a TyVar compares (forwarded, name), left to right
TyEq(T, x, y) ==
    IF x.k # y.k THEN FALSE
    ELSE CASE x.k = "TyVar" ->
                LET fx == T.tv[x.id].forwarded
                    fy == T.tv[y.id].forwarded
                IN /\ IF fx = <<>> \/ fy = <<>> THEN fx = fy ELSE TyEq(T, fx[1], fy[1])
                   /\ T.tv[x.id].name = T.tv[y.id].name
           [] x.k = "TyCon" ->
                /\ x.name = y.name
                /\ Len(x.args) = Len(y.args)
                /\ \A i \in 1..Len(x.args) : TyEq(T, x.args[i], y.args[i])
           [] x.k = "TyRow" ->
                /\ DictKeys(x.fields) = DictKeys(y.fields)
                /\ \A key \in DictKeys(x.fields) : TyEq(T, DictGet(x.fields, key), DictGet(y.fields, key))
                /\ TyEq(T, x.rest, y.rest)
           [] OTHER -> TRUE

RECURSIVE occurs_in(_, _, _)
occurs_in(T, tyvar, ty) ==
    CASE ty.k = "TyVar" -> TyEq(T, tyvar, ty)
      [] ty.k = "TyCon" -> \E i \in 1..Len(ty.args) : occurs_in(T, tyvar, ty.args[i])
      [] ty.k = "TyEmptyRow" -> FALSE
      [] ty.k = "TyRow" ->
            \/ \E i \in 1..Len(ty.fields) : occurs_in(T, tyvar, ty.fields[i].val)
            \/ occurs_in(T, tyvar, ty.rest)

RECURSIVE row_flatten_in(_, _, _)
\* row_flatten with the depth left before RecursionError
row_flatten_in(T, rec, depth) ==
    LET r == IF rec.k = "TyVar" THEN find(T, rec) ELSE rec
    IN CASE depth = 0 -> [st |-> "RecursionError", fields |-> <<>>, rest |-> r]
         [] r.k = "TyVar" -> [st |-> "ok", fields |-> <<>>, rest |-> r]
         [] r.k = "TyRow" ->
               LET inner == row_flatten_in(T, r.rest, depth - 1)
               IN IF inner.st # "ok" THEN inner
                  ELSE [inner EXCEPT !.fields = DictMerge(@, r.fields)]
         [] r.k = "TyEmptyRow" -> [st |-> "ok", fields |-> <<>>, rest |-> r]
         [] OTHER -> [st |-> "InferenceError", fields |-> <<>>, rest |-> r]

\* returns [st, fields, rest]; a chain of rests that is not a cycle passes
\* through each variable at most once
row_flatten(T, rec) == row_flatten_in(T, rec, Len(T.tv) + 2)

fresh_tyvar_none(T) == T
\* fresh_tyvar: the store with the new variable; the variable is the last of tv
fresh_tyvar(T) ==
    [tv |-> Append(T.tv, [name |-> "t" \o ToString(T.n), forwarded |-> <<>>]), n |-> T.n + 1]

\* the field names of the model, in the order of sorted()
FieldOrder == <<"a", "b", "c", "x", "y", "z">>
sorted(S) == SelectSeq(FieldOrder, LAMBDA key : key \in S)

RECURSIVE unify_type(_, _, _, _), unify_args(_, _, _, _), unify_fields(_, _, _, _, _, _, _)
unify_type(T, t1, t2, fuel) ==
    LET ty1 == find(T, t1)
        ty2 == find(T, t2)
    IN IF fuel = 0 THEN [st |-> "RecursionError", T |-> T]
       ELSE IF ty1.k = "TyVar" THEN
          IF occurs_in(T, ty1, ty2) THEN [st |-> "InferenceError", T |-> T]
          ELSE [st |-> "ok", T |-> make_equal_to(T, ty1, ty2)]
       ELSE IF ty2.k = "TyVar" THEN unify_type(T, ty2, ty1, fuel - 1)
       ELSE IF ty1.k = "TyCon" /\ ty2.k = "TyCon" THEN
          IF ty1.name # ty2.name THEN [st |-> "InferenceError", T |-> T]
          ELSE IF Len(ty1.args) # Len(ty2.args) THEN [st |-> "InferenceError", T |-> T]
          ELSE unify_args(T, ty1.args, ty2.args, fuel - 1)
       ELSE IF ty1.k = "TyEmptyRow" /\ ty2.k = "TyEmptyRow" THEN [st |-> "ok", T |-> T]
       ELSE IF ty1.k = "TyRow" /\ ty2.k = "TyRow" THEN
          LET f1 == row_flatten(T, ty1)
              f2 == row_flatten(T, ty2)
          IN IF f1.st # "ok" THEN [st |-> f1.st, T |-> T]
             ELSE IF f2.st # "ok" THEN [st |-> f2.st, T |-> T]
             ELSE unify_fields(T, f1, f2, sorted(DictKeys(f1.fields) \cup DictKeys(f2.fields)), <<>>, <<>>, fuel - 1)
       ELSE [st |-> "InferenceError", T |-> T]

\* for l, r in zip(ty1.args, ty2.args): unify_type(l, r)
unify_args(T, ls, rs, fuel) ==
    IF ls = <<>> THEN [st |-> "ok", T |-> T]
    ELSE LET r == unify_type(T, Head(ls), Head(rs), fuel)
         IN IF r.st # "ok" THEN r ELSE unify_args(r.T, Tail(ls), Tail(rs), fuel)

\* the loop over sorted(all_field_names) and the linking of the rests
unify_fields(T, f1, f2, keys, ty1_missing, ty2_missing, fuel) ==
    IF keys # <<>> THEN
       LET key == Head(keys)
       IN IF DictHas(f1.fields, key) /\ DictHas(f2.fields, key) THEN
             LET r == unify_type(T, DictGet(f1.fields, key), DictGet(f2.fields, key), fuel)
             IN IF r.st # "ok" THEN r
                ELSE unify_fields(r.T, f1, f2, Tail(keys), ty1_missing, ty2_missing, fuel)
          ELSE IF ~DictHas(f1.fields, key) THEN
             unify_fields(T, f1, f2, Tail(keys), DictSet(ty1_missing, key, DictGet(f2.fields, key)), ty2_missing, fuel)
          ELSE
             unify_fields(T, f1, f2, Tail(keys), ty1_missing, DictSet(ty2_missing, key, DictGet(f1.fields, key)), fuel)
    ELSE IF ty1_missing = <<>> /\ ty2_missing = <<>> THEN unify_type(T, f1.rest, f2.rest, fuel)
    ELSE IF ty1_missing = <<>> THEN unify_type(T, f2.rest, TyRow(ty2_missing, f1.rest), fuel)
    ELSE IF ty2_missing = <<>> THEN unify_type(T, f1.rest, TyRow(ty1_missing, f2.rest), fuel)
    ELSE LET F == fresh_tyvar(T)
             rest == TyVar(Len(F.tv))
             r == unify_type(F, f1.rest, TyRow(ty1_missing, rest), fuel)
         IN IF r.st # "ok" THEN r
            ELSE unify_type(r.T, f2.rest, TyRow(ty2_missing, rest), fuel)


----------------------------------------------------------------------------
(* SpecUnify: up to MaxUnify calls of unify_type on the types of TypePool, *)
(* starting from three unbound type variables 'a, 'b, 'c.                  *)

UnifyTypes == NewTyVar(NewTyVar(NewTyVar(NoTypes, "a"), "b"), "c")

TypePool ==
    { TyVar(1), TyVar(2), IntType,
      list_type(TyVar(2)), list_type(IntType),
      func_type(TyVar(1), TyVar(3)),
      TyRow(<<[key |-> "x", val |-> IntType]>>, TyEmptyRow),
      TyRow(<<[key |-> "x", val |-> IntType]>>, TyVar(3)),
      TyRow(<<[key |-> "y", val |-> TyVar(1)]>>, TyVar(3)),
      TyRow(<<[key |-> "y", val |-> IntType]>>, TyVar(2)) }

UnifyInit ==
    /\ phase = 0
    /\ types = UnifyTypes
    /\ ucall = NoUnify /\ inferred = NoText
    /\ TextIdle
    /\ heap = EmptyHeap
    /\ obj = Hole /\ ser = NoSer /\ de = NoDe
    /\ menv = 0 /\ prev = NoCall /\ res = NoRes
    /\ mobj = Hole /\ mpat = Hole /\ mres = NoRes

\* unify_type(ty1, ty2); an exception leaves the assignments made so far
Unify(ty1, ty2) ==
    /\ phase < MaxUnify
    /\ ucall' = [ty1 |-> ty1, ty2 |-> ty2, before |-> types, out |-> unify_type(types, ty1, ty2, MaxFuel)]
    /\ types' = ucall'.out.T
    /\ phase' = phase + 1
    /\ UNCHANGED <<inferred, textvars, heap, obj, ser, de, menv, prev, res, mobj, mpat, mres>>

UnifyNext == \E ty1, ty2 \in TypePool : Unify(ty1, ty2)

SpecUnify == UnifyInit /\ [][UnifyNext]_vars

----------------------------------------------------------------------------
(* Properties of unification *)

RECURSIVE TyVarsOf(_)
\* the TyVar objects a type mentions
TyVarsOf(ty) ==
    CASE ty.k = "TyVar" -> {ty.id}
      [] ty.k = "TyCon" -> UNION {TyVarsOf(ty.args[i]) : i \in 1..Len(ty.args)}
      [] ty.k = "TyRow" -> UNION {TyVarsOf(ty.fields[i].val) : i \in 1..Len(ty.fields)} \cup TyVarsOf(ty.rest)
      [] OTHER -> {}

\* one step from the variables of S: through a forwarding pointer and then
\* through constructor and row arguments
Forward(T, S) ==
    UNION {TyVarsOf(T.tv[i].forwarded[1]) : i \in {j \in S : T.tv[j].forwarded # <<>>}}

RECURSIVE ReachableIn(_, _, _)
ReachableIn(T, S, n) ==
    IF n = 0 THEN S ELSE ReachableIn(T, S \cup Forward(T, S), n - 1)

\* the variables reachable from variable i in one step or more
ReachableFrom(T, i) == ReachableIn(T, Forward(T, {i}), Len(T.tv))

Acyclic(T) == \A i \in 1..Len(T.tv) : i \notin ReachableFrom(T, i)

RECURSIVE Structure(_, _, _)
\* the type ty stands for: forwarding pointers followed, to depth n
Structure(T, ty, n) ==
    LET t == find(T, ty)
    IN IF n = 0 THEN [k |-> "..."]
       ELSE CASE t.k = "TyVar" -> [k |-> "TyVar", name |-> T.tv[t.id].name]
              [] t.k = "TyCon" -> [t EXCEPT !.args = [i \in 1..Len(t.args) |-> Structure(T, t.args[i], n - 1)]]
              [] t.k = "TyRow" ->
                    [t EXCEPT !.fields = [i \in 1..Len(t.fields) |-> [key |-> t.fields[i].key, val |-> Structure(T, t.fields[i].val, n - 1)]],
                              !.rest = Structure(T, t.rest, n - 1)]
              [] OTHER -> t

StructureDepth == 4

\* C13: unify_type(t, t) returns without raising and leaves the structure
\* of t.find() as it was, for every type t
C13_UnifySelf ==
    (phase > 0 /\ ucall.ty1 = ucall.ty2) =>
        /\ ucall.out.st = "ok"
        /\ Structure(types, ucall.ty1, StructureDepth) = Structure(ucall.before, ucall.ty1, StructureDepth)

\* C14: after any sequence of unify_type calls on an acyclic forest, no type
\* variable is reachable from itself
C14_ForestStaysAcyclic == Acyclic(types)


----------------------------------------------------------------------------
(* SpecBinop: BinopKind.to_str and BinopKind.from_str after one another,  *)
(* from every member of BinopKind and from operator texts.                *)

\* the texts handed to from_str: its keys and other operators of the grammar
OperatorTexts ==
    {from_str_table[i][1] : i \in 1..Len(from_str_table)}
        \cup {"->", "=", ".", "@", "|", "::", "?", ",", "...", "#", "&", "$"}

BinopInit ==
    /\ \/ phase = "kind" /\ text \in BinopKind
       \/ phase = "str" /\ text \in OperatorTexts
    /\ toks = NoText /\ tree = NoText /\ printed = NoText /\ back = NoText /\ cache = <<>>
    /\ TypesIdle
    /\ heap = EmptyHeap
    /\ obj = Hole /\ ser = NoSer /\ de = NoDe
    /\ menv = 0 /\ prev = NoCall /\ res = NoRes
    /\ mobj = Hole /\ mpat = Hole /\ mres = NoRes

\* BinopKind.to_str, of the member given or of the member from_str returned
ToStr ==
    /\ \/ phase = "kind" /\ printed' = to_str(text) /\ phase' = "kind_str"
       \/ phase = "str_kind" /\ tree.st = "ok" /\ printed' = to_str(tree.v) /\ phase' = "str_kind_str"
    /\ UNCHANGED <<text, toks, tree, back, cache, typevars, heap, obj, ser, de, menv, prev, res, mobj, mpat, mres>>

\* BinopKind.from_str, of the text given or of the text to_str returned
FromStr ==
    /\ \/ phase = "str" /\ tree' = from_str(text) /\ phase' = "str_kind"
       \/ phase = "kind_str" /\ printed.st = "ok" /\ tree' = from_str(printed.v) /\ phase' = "kind_str_kind"
    /\ UNCHANGED <<text, toks, printed, back, cache, typevars, heap, obj, ser, de, menv, prev, res, mobj, mpat, mres>>

BinopNext == ToStr \/ FromStr

SpecBinop == BinopInit /\ [][BinopNext]_vars

\* C20: to_str is defined on every member k of BinopKind and
\* from_str(to_str(k)) = k; to_str(from_str(s)) = s for every text s that
\* from_str accepts
C20_TextualFormRoundTrip ==
    /\ phase = "kind_str" => printed.st = "ok"
    /\ phase = "kind_str_kind" => tree.st = "ok" /\ tree.v = text
    /\ phase = "str_kind_str" => printed.st = "ok" /\ printed.v = text


----------------------------------------------------------------------------
(* Tokens and the lexer, src/scrapscript.py 33-413.  A Python str is a    *)
(* TLA+ string; source extents are left out (tokens compare without them) *)
(* and the lexer is the text it still has to read.  A lexer operator      *)
(* returns [st, tok, rest]: the token and the text after it.              *)

IntLit(n) == [k |-> "IntLit", ival |-> n]
FloatLit(f) == [k |-> "FloatLit", fval |-> f]
StringLit(x) == [k |-> "StringLit", sval |-> x]
BytesLit(x, base) == [k |-> "BytesLit", sval |-> x, base |-> base]
Operator(x) == [k |-> "Operator", op |-> x]
Name(x) == [k |-> "Name", name |-> x]
Bracket(kind) == [k |-> kind]
Hash == [k |-> "Hash"]
EOF == [k |-> "EOF"]

\* Prec(pl, pr), in tenths
lp(n) == [pl |-> n * 10, pr |-> n * 10 - 1]
rp(n) == [pl |-> n * 10, pr |-> n * 10 + 1]
np(n) == [pl |-> n * 10, pr |-> n * 10]
xp(n) == [pl |-> n * 10, pr |-> 0]

\* the precedence table, in the order of the dict literal
PS ==
    << <<"::", lp(2000)>>, <<"@", rp(1001)>>, <<"", rp(1000)>>,
       <<">>", lp(14)>>, <<"<<", lp(14)>>, <<"^", rp(13)>>, <<"*", rp(12)>>,
       <<"/", rp(12)>>, <<"//", lp(12)>>, <<"%", lp(12)>>, <<"+", lp(11)>>,
       <<"-", lp(11)>>, <<">*", rp(10)>>, <<"++", rp(10)>>, <<">+", lp(10)>>,
       <<"+<", rp(10)>>, <<"==", np(9)>>, <<"/=", np(9)>>, <<"<", np(9)>>,
       <<">", np(9)>>, <<"<=", np(9)>>, <<">=", np(9)>>, <<"&&", rp(8)>>,
       <<"||", rp(7)>>, <<"|>", rp(6)>>, <<"<|", lp(6)>>,
       <<"#", [pl |-> 55, pr |-> 54]>>, <<"->", lp(5)>>,
       <<"|", [pl |-> 45, pr |-> 46]>>, <<":", [pl |-> 45, pr |-> 44]>>,
       <<"=", rp(4)>>, <<"!", lp(3)>>, <<".", rp(3)>>, <<"?", rp(3)>>,
       <<",", xp(1)>>, <<"...", xp(0)>> >>

PSKeys == {PS[i][1] : i \in 1..Len(PS)}
PSGet(key) == PS[CHOOSE i \in 1..Len(PS) : PS[i][1] = key][2]
Max(S) == CHOOSE x \in S : \A y \in S : y <= x
HIGHEST_PREC == Max({PS[i][2].pl : i \in 1..Len(PS)} \cup {PS[i][2].pr : i \in 1..Len(PS)})
OPER_CHARS == UNION {{SubSeq(key, j, j) : j \in 1..Len(key)} : key \in PSKeys}

Digits == <<"0", "1", "2", "3", "4", "5", "6", "7", "8", "9">>
isdigit(c) == \E d \in 1..10 : Digits[d] = c
DigitValue(c) == (CHOOSE d \in 1..10 : Digits[d] = c) - 1
isspace(c) == c \in {" ", "\n", "\t", "\r"}
Letters ==
    {"a", "b", "c", "d", "e", "f", "g", "h", "i", "j", "k", "l", "m", "n", "o",
     "p", "q", "r", "s", "t", "u", "v", "w", "x", "y", "z"}
is_identifier_char(c) == c \in Letters \/ isdigit(c) \/ c \in {"$", "'", "_"}
startswith(x, prefix) == Len(prefix) <= Len(x) /\ SubSeq(x, 1, Len(prefix)) = prefix

RECURSIVE int(_)
\* int(buf) of a string of digits
int(buf) == IF buf = "" THEN 0 ELSE int(SubSeq(buf, 1, Len(buf) - 1)) * 10 + DigitValue(SubSeq(buf, Len(buf), Len(buf)))

RECURSIVE Pow10(_)
Pow10(n) == IF n = 0 THEN 1 ELSE 10 * Pow10(n - 1)

\* float(buf) of digits, a point and digits: the fraction in lowest terms
float(whole, decimals) ==
    LET num == int(whole) * Pow10(Len(decimals)) + int(decimals)
        den == Pow10(Len(decimals))
        g == Gcd(num, den)
    IN <<num \div g, den \div g>>

LexOk(tok, rest) == [st |-> "ok", tok |-> tok, rest |-> rest]
LexErr(e, rest) == [st |-> e, tok |-> EOF, rest |-> rest]

RECURSIVE read_string(_, _)
read_string(buf, rest) ==
    IF rest = "" THEN LexErr("UnexpectedEOFError", rest)
    ELSE IF Head(rest) = "\"" THEN LexOk(StringLit(buf), Tail(rest))
    ELSE read_string(buf \o Head(rest), Tail(rest))

RECURSIVE read_comment(_)
\* the text after the comment's line
read_comment(rest) ==
    IF rest = "" THEN rest
    ELSE IF Head(rest) = "\n" THEN Tail(rest)
    ELSE read_comment(Tail(rest))

RECURSIVE read_number(_, _, _)
\* buf is the digits before the point; decimals is <<>> before a point was
\* read and <<digits>> after
read_number(buf, decimals, rest) ==
    LET done == IF decimals = <<>> THEN LexOk(IntLit(int(buf)), rest)
                ELSE LexOk(FloatLit(float(buf, decimals[1])), rest)
    IN IF rest = "" THEN done
       ELSE IF Head(rest) = "." THEN
          IF decimals # <<>> THEN LexErr("ParseError", rest)
          ELSE read_number(buf, <<"">>, Tail(rest))
       ELSE IF ~isdigit(Head(rest)) THEN done
       ELSE IF decimals = <<>> THEN read_number(buf \o Head(rest), decimals, Tail(rest))
       ELSE read_number(buf, <<decimals[1] \o Head(rest)>>, Tail(rest))

_starts_operator(buf) == \E key \in PSKeys : startswith(key, buf)

\* the loop condition of read_op
extends_operator_never(buf, c) == FALSE
extends_operator(buf, c) == _starts_operator(buf \o c)

RECURSIVE read_op(_, _)
read_op(buf, rest) ==
    IF rest # "" /\ extends_operator(buf, Head(rest)) THEN read_op(buf \o Head(rest), Tail(rest))
    ELSE IF buf \in PSKeys THEN LexOk(Operator(buf), rest)
    ELSE LexErr("ParseError", rest)

RECURSIVE read_var(_, _)
read_var(buf, rest) ==
    IF rest # "" /\ is_identifier_char(Head(rest)) THEN read_var(buf \o Head(rest), Tail(rest))
    ELSE LexOk(Name(buf), rest)

RECURSIVE rindex(_, _)
\* str.rfind: the last position of c in x, 0 when there is none
rindex(x, c) ==
    IF x = "" THEN 0
    ELSE IF SubSeq(x, Len(x), Len(x)) = c THEN Len(x)
    ELSE rindex(SubSeq(x, 1, Len(x) - 1), c)

RECURSIVE alldigits(_)
alldigits(x) == x = "" \/ (isdigit(Head(x)) /\ alldigits(Tail(x)))

RECURSIVE read_bytes(_, _)
read_bytes(buf, rest) ==
    IF rest # "" /\ ~isspace(Head(rest)) THEN read_bytes(buf \o Head(rest), Tail(rest))
    ELSE LET q == rindex(buf, "'")
             base == SubSeq(buf, 1, q - 1)
             value == SubSeq(buf, q + 1, Len(buf))
         IN IF q <= 1 THEN LexOk(BytesLit(value, 64), rest)
            ELSE IF alldigits(base) THEN LexOk(BytesLit(value, int(base)), rest)
            ELSE LexErr("ValueError", rest)

RECURSIVE read_token(_)
read_token(text_) ==
    IF text_ = "" THEN LexOk(EOF, text_)
    ELSE LET c == Head(text_)
             rest == Tail(text_)
         IN IF isspace(c) THEN read_token(rest)
            ELSE IF c = "\"" THEN read_string("", rest)
            ELSE IF c = "-" THEN
               IF rest # "" /\ Head(rest) = "-" THEN read_token(read_comment(rest))
               ELSE read_op(c, rest)
            ELSE IF c = "#" THEN LexOk(Hash, rest)
            ELSE IF c = "~" THEN
               IF rest # "" /\ Head(rest) = "~" THEN read_bytes("", Tail(rest))
               ELSE LexErr("ParseError", rest)
            ELSE IF isdigit(c) THEN read_number(c, <<>>, rest)
            ELSE IF c = "(" THEN LexOk(Bracket("LeftParen"), rest)
            ELSE IF c = ")" THEN LexOk(Bracket("RightParen"), rest)
            ELSE IF c = "{" THEN LexOk(Bracket("LeftBrace"), rest)
            ELSE IF c = "}" THEN LexOk(Bracket("RightBrace"), rest)
            ELSE IF c = "[" THEN LexOk(Bracket("LeftBracket"), rest)
            ELSE IF c = "]" THEN LexOk(Bracket("RightBracket"), rest)
            ELSE IF c \in OPER_CHARS THEN read_op(c, rest)
            ELSE IF is_identifier_char(c) THEN read_var(c, rest)
            ELSE LexErr("InvalidTokenError", rest)

RECURSIVE tokenize_from(_, _)
\* the loop of tokenize: read_token until EOF
tokenize_from(tokens, rest) ==
    LET t == read_token(rest)
    IN IF t.st # "ok" THEN [st |-> t.st, v |-> tokens]
       ELSE IF t.tok = EOF THEN [st |-> "ok", v |-> tokens]
       ELSE tokenize_from(Append(tokens, t.tok), t.rest)

tokenize(x) == tokenize_from(<<>>, x)


----------------------------------------------------------------------------
(* The parser, src/scrapscript.py 507-705.  The Peekable is the sequence  *)
(* of tokens not yet consumed; gensym.counter is g.  A parser operator    *)
(* returns [st, v, rest, g]; next() on an exhausted Peekable is the       *)
(* exception StopIteration.                                               *)

POk(v, rest, g) == [st |-> "ok", v |-> v, rest |-> rest, g |-> g]
PErr(e, rest, g) == [st |-> e, v |-> Hole, rest |-> rest, g |-> g]

\* base64.b64decode on the texts used
Base64Table == << <<"", <<>> >>, <<"AQ==", <<1>> >>, <<"YWI=", <<97, 98>> >> >>
b64decode(x) == Base64Table[CHOOSE i \in 1..Len(Base64Table) : Base64Table[i][1] = x][2]
b64encode(b) == Base64Table[CHOOSE i \in 1..Len(Base64Table) : Base64Table[i][2] = b][1]

\* gensym(): the name made from the incremented counter
gensym(g) == "$v" \o ToString(g + 1)

\* the `->` branch of parse_binary
arrow_var_only(l, r) == IF l.k = "Var" THEN Function(l, r) ELSE Hole
arrow(l, r) == Function(l, r)

RECURSIVE parse_unary(_, _, _), parse_binary(_, _, _), parse_binary_loop(_, _, _, _),
          parse_match_cases(_, _, _), parse_list_rest(_, _, _), parse_record_rest(_, _, _, _),
          parse_assign(_, _, _), parse_tokens(_, _)

parse_assign(tokens, p, g) ==
    LET a == parse_binary(tokens, p, g)
    IN IF a.st # "ok" THEN a
       ELSE IF a.v.k = "Spread" THEN POk(Assign(Var("..."), a.v), a.rest, a.g)
       ELSE IF a.v.k # "Assign" THEN PErr("ParseError", a.rest, a.g)
       ELSE a

parse_unary(tokens, p, g) ==
    IF tokens = <<>> THEN PErr("StopIteration", tokens, g)
    ELSE LET token == Head(tokens)
             rest == Tail(tokens)
         IN CASE token.k = "IntLit" -> POk(IntObj(token.ival), rest, g)
              [] token.k = "FloatLit" -> POk(Float(token.fval), rest, g)
              [] token.k = "Name" -> POk(Var(token.name), rest, g)
              [] token.k = "Hash" ->
                    IF rest = <<>> THEN PErr("StopIteration", rest, g)
                    ELSE IF Head(rest).k # "Name" THEN PErr("UnexpectedTokenError", Tail(rest), g)
                    ELSE LET value == parse_binary(Tail(rest), PSGet("").pr + 10, g)
                         IN IF value.st # "ok" THEN value
                            ELSE POk(Variant(Head(rest).name, value.v), value.rest, value.g)
              [] token.k = "BytesLit" ->
                    IF token.base = 64 THEN POk(Bytes(b64decode(token.sval)), rest, g)
                    ELSE IF token.base \in {85, 32, 16} /\ token.sval = "" THEN POk(Bytes(<<>>), rest, g)
                    ELSE PErr("ParseError", rest, g)
              [] token.k = "StringLit" -> POk(String(token.sval), rest, g)
              [] token = Operator("...") ->
                    IF rest # <<>> /\ Head(rest).k = "Name" THEN POk(Spread(<<Head(rest).name>>), Tail(rest), g)
                    ELSE POk(Spread(<<>>), rest, g)
              [] token = Operator("|") -> parse_match_cases(<<>>, rest, g)
              [] token.k = "LeftParen" ->
                    IF rest = <<>> THEN PErr("StopIteration", rest, g)
                    ELSE LET l == IF Head(rest).k = "RightParen" THEN POk(Hole, rest, g)
                                  ELSE parse_tokens(rest, g)
                         IN IF l.st # "ok" THEN l
                            ELSE IF l.rest = <<>> THEN PErr("StopIteration", l.rest, l.g)
                            ELSE POk(l.v, Tail(l.rest), l.g)
              [] token.k = "LeftBracket" ->
                    IF rest = <<>> THEN PErr("StopIteration", rest, g)
                    ELSE IF Head(rest).k = "RightBracket" THEN POk(List(0, <<>>), Tail(rest), g)
                    ELSE LET item == parse_binary(rest, 20, g)
                         IN IF item.st # "ok" THEN item
                            ELSE parse_list_rest(<<item.v>>, item.rest, item.g)
              [] token.k = "LeftBrace" ->
                    IF rest = <<>> THEN PErr("StopIteration", rest, g)
                    ELSE IF Head(rest).k = "RightBrace" THEN POk(Record(<<>>), Tail(rest), g)
                    ELSE LET assign == parse_assign(rest, 20, g)
                         IN IF assign.st # "ok" THEN assign
                            ELSE parse_record_rest(DictSet(<<>>, assign.v.target.name, assign.v.value), assign.v, assign.rest, assign.g)
              [] token = Operator("-") ->
                    LET r == parse_binary(rest, HIGHEST_PREC + 10, g)
                    IN IF r.st # "ok" THEN r
                       ELSE IF r.v.k = "Int" THEN
                          IF r.v.ival < 0 THEN PErr("AssertionError", r.rest, r.g)
                          ELSE POk(IntObj(-r.v.ival), r.rest, r.g)
                       ELSE IF r.v.k = "Float" THEN
                          IF r.v.fval[1] < 0 THEN PErr("AssertionError", r.rest, r.g)
                          ELSE POk(Float(<<-r.v.fval[1], r.v.fval[2]>>), r.rest, r.g)
                       ELSE POk(Binop("SUB", IntObj(0), r.v), r.rest, r.g)
              [] OTHER -> PErr("UnexpectedTokenError", rest, g)

\* the cases of a match function, after a `|` was consumed
parse_match_cases(cases, tokens, g) ==
    LET expr == parse_binary(tokens, PSGet("|").pr, g)
    IN IF expr.st # "ok" THEN expr
       ELSE IF expr.v.k # "Function" THEN PErr("ParseError", expr.rest, expr.g)
       ELSE LET cs == Append(cases, MatchCase(expr.v.arg, expr.v.body))
            IN IF expr.rest # <<>> /\ Head(expr.rest) = Operator("|")
               THEN parse_match_cases(cs, Tail(expr.rest), expr.g)
               ELSE POk(MatchFunction(cs), expr.rest, expr.g)

\* while not isinstance(next(tokens), RightBracket)
parse_list_rest(items, tokens, g) ==
    IF tokens = <<>> THEN PErr("StopIteration", tokens, g)
    ELSE IF Head(tokens).k = "RightBracket" THEN POk(List(0, items), Tail(tokens), g)
    ELSE IF items[Len(items)].k = "Spread" THEN PErr("ParseError", Tail(tokens), g)
    ELSE LET item == parse_binary(Tail(tokens), 20, g)
         IN IF item.st # "ok" THEN item
            ELSE parse_list_rest(Append(items, item.v), item.rest, item.g)

\* while not isinstance(next(tokens), RightBrace)
parse_record_rest(data, assign, tokens, g) ==
    IF tokens = <<>> THEN PErr("StopIteration", tokens, g)
    ELSE IF Head(tokens).k = "RightBrace" THEN POk(Record(data), Tail(tokens), g)
    ELSE IF assign.value.k = "Spread" THEN PErr("ParseError", Tail(tokens), g)
    ELSE LET a == parse_assign(Tail(tokens), 20, g)
         IN IF a.st # "ok" THEN a
            ELSE parse_record_rest(DictSet(data, a.v.target.name, a.v.value), a.v, a.rest, a.g)

parse_binary(tokens, p, g) ==
    LET l == parse_unary(tokens, p, g)
    IN IF l.st # "ok" THEN l ELSE parse_binary_loop(l.v, l.rest, p, l.g)

\* the while loop of parse_binary, with l parsed so far
parse_binary_loop(l, tokens, p, g) ==
    IF tokens = <<>> THEN POk(l, tokens, g)
    ELSE LET op == Head(tokens)
         IN IF op.k \in {"RightParen", "RightBracket", "RightBrace"} THEN POk(l, tokens, g)
            ELSE IF op.k # "Operator" THEN
               LET prec == PSGet("")
               IN IF prec.pl < p THEN POk(l, tokens, g)
                  ELSE LET r == parse_binary(tokens, prec.pr, g)
                       IN IF r.st # "ok" THEN r
                          ELSE parse_binary_loop(Apply(l, r.v), r.rest, p, r.g)
            ELSE IF op.op \notin PSKeys THEN PErr("KeyError", tokens, g)
            ELSE LET prec == PSGet(op.op)
                 IN IF prec.pl < p THEN POk(l, tokens, g)
                    ELSE IF op.op = "=" /\ l.k # "Var" THEN PErr("ParseError", Tail(tokens), g)
                    ELSE LET r == parse_binary(Tail(tokens), prec.pr, g)
                             kind == from_str(op.op)
                         IN IF op.op \notin {"=", "->", "|>", "<|", ">>", "<<", ".", "?", "@"} /\ kind.st # "ok"
                            THEN PErr(kind.st, Tail(tokens), g)
                            ELSE IF r.st # "ok" THEN r
                            ELSE CASE op.op = "=" -> parse_binary_loop(Assign(l, r.v), r.rest, p, r.g)
                                   [] op.op = "->" -> parse_binary_loop(arrow(l, r.v), r.rest, p, r.g)
                                   [] op.op = "|>" -> parse_binary_loop(Apply(r.v, l), r.rest, p, r.g)
                                   [] op.op = "<|" -> parse_binary_loop(Apply(l, r.v), r.rest, p, r.g)
                                   [] op.op = ">>" ->
                                         parse_binary_loop(Function(Var(gensym(r.g)), Apply(r.v, Apply(l, Var(gensym(r.g))))), r.rest, p, r.g + 1)
                                   [] op.op = "<<" ->
                                         parse_binary_loop(Function(Var(gensym(r.g)), Apply(l, Apply(r.v, Var(gensym(r.g))))), r.rest, p, r.g + 1)
                                   [] op.op = "." -> parse_binary_loop(Where(l, r.v), r.rest, p, r.g)
                                   [] op.op = "?" -> parse_binary_loop(AssertObj(l, r.v), r.rest, p, r.g)
                                   [] op.op = "@" -> parse_binary_loop(Access(l, r.v), r.rest, p, r.g)
                                   [] OTHER -> parse_binary_loop(Binop(kind.v, l, r.v), r.rest, p, r.g)

\* parse(tokens): StopIteration becomes UnexpectedEOFError
parse_tokens(tokens, g) ==
    LET r == parse_binary(tokens, 0, g)
    IN IF r.st = "StopIteration" THEN PErr("UnexpectedEOFError", r.rest, r.g) ELSE r


----------------------------------------------------------------------------
(* pretty, src/scrapscript.py 5643-5713, on the classes the parser builds. *)
(* It returns [st, v]: the text, or the exception raised.                  *)

RECURSIVE ZeroPad(_, _)
ZeroPad(x, n) == IF Len(x) >= n THEN x ELSE ZeroPad("0" \o x, n)

\* str(float) of a fraction with at most four decimals
float_str(f) ==
    LET n == CHOOSE j \in 1..4 : Pow10(j) % f[2] = 0 /\ \A i \in 1..(j - 1) : Pow10(i) % f[2] # 0
        scaled == (Abs(f[1]) * Pow10(n)) \div f[2]
    IN (IF f[1] < 0 THEN "-" ELSE "") \o ToString(scaled \div Pow10(n)) \o "."
           \o ZeroPad(ToString(scaled % Pow10(n)), n)

\* json.dumps of a string without characters to escape
json_dumps(x) == "\"" \o x \o "\""

TextOk(x) == [st |-> "ok", v |-> x]
TextErr(e) == [st |-> e, v |-> ""]

RECURSIVE pretty(_, _), pretty_items(_, _, _), pretty_data(_, _, _), pretty_cases(_, _, _),
          pretty_infix(_, _, _, _, _)

\* f"{pretty(left, pl)}{infix}{pretty(right, pr)}", in parentheses when
\* prec >= op_prec.pl
pretty_infix(left, infix, right, op_prec, prec) ==
    LET l == pretty(left, op_prec.pl)
        r == pretty(right, op_prec.pr)
    IN IF l.st # "ok" THEN l
       ELSE IF r.st # "ok" THEN r
       ELSE IF prec >= op_prec.pl THEN TextOk("(" \o l.v \o infix \o r.v \o ")")
       ELSE TextOk(l.v \o infix \o r.v)

\* ", ".join(pretty(item) for item in items), after acc
pretty_items(acc, items, j) ==
    IF j > Len(items) THEN TextOk(acc)
    ELSE LET x == pretty(items[j], 0)
         IN IF x.st # "ok" THEN x
            ELSE pretty_items(acc \o (IF j > 1 THEN ", " ELSE "") \o x.v, items, j + 1)

pretty_data(acc, data, j) ==
    IF j > Len(data) THEN TextOk(acc)
    ELSE LET x == pretty(data[j].val, 0)
         IN IF x.st # "ok" THEN x
            ELSE pretty_data(acc \o (IF j > 1 THEN ", " ELSE "") \o data[j].key \o " = " \o x.v, data, j + 1)

pretty_cases(acc, cases, j) ==
    IF j > Len(cases) THEN TextOk(acc)
    ELSE LET pat == pretty(cases[j].pattern, PSGet("|").pl)
             bdy == pretty(cases[j].body, PSGet("|").pr)
         IN IF pat.st # "ok" THEN pat
            ELSE IF bdy.st # "ok" THEN bdy
            ELSE pretty_cases(acc \o (IF j > 1 THEN "\n" ELSE "") \o "| " \o pat.v \o " -> " \o bdy.v, cases, j + 1)

pretty(o, prec) ==
    CASE o.k = "Int" -> TextOk(ToString(o.ival))
      [] o.k = "Float" -> TextOk(float_str(o.fval))
      [] o.k = "String" -> TextOk(json_dumps(o.sval))
      [] o.k = "Bytes" -> TextOk("~~" \o b64encode(o.bval))
      [] o.k = "Var" -> TextOk(o.name)
      [] o.k = "Hole" -> TextOk("()")
      [] o.k = "Spread" -> TextOk(IF o.sname # <<>> THEN "..." \o o.sname[1] ELSE "...")
      [] o.k = "List" ->
            LET x == pretty_items("", o.items, 1)
            IN IF x.st # "ok" THEN x ELSE TextOk("[" \o x.v \o "]")
      [] o.k = "Record" ->
            LET x == pretty_data("", o.data, 1)
            IN IF x.st # "ok" THEN x ELSE TextOk("{" \o x.v \o "}")
      [] o.k = "NativeFunction" -> TextOk("NativeFunction(name=" \o o.nname \o ")")
      [] o.k = "Variant" ->
            LET x == pretty(o.value, PSGet("#").pr)
            IN IF x.st # "ok" THEN x
               ELSE IF prec >= PSGet("#").pl THEN TextOk("(#" \o o.tag \o " " \o x.v \o ")")
               ELSE TextOk("#" \o o.tag \o " " \o x.v)
      [] o.k = "Assign" -> pretty_infix(o.target, " = ", o.value, PSGet("="), prec)
      [] o.k = "Binop" ->
            IF to_str(o.op).st # "ok" THEN TextErr(to_str(o.op).st)
            ELSE pretty_infix(o.left, " " \o to_str(o.op).v \o " ", o.right, PSGet(to_str(o.op).v), prec)
      [] o.k = "Function" ->
            IF o.arg.k # "Var" THEN TextErr("AssertionError")
            ELSE pretty_infix(o.arg, " -> ", o.body, PSGet("->"), prec)
      [] o.k = "MatchFunction" ->
            LET x == pretty_cases("", o.cases, 1)
            IN IF x.st # "ok" THEN x
               ELSE IF prec >= PSGet("|").pl THEN TextOk("(" \o x.v \o ")")
               ELSE TextOk(x.v)
      [] o.k = "Where" -> pretty_infix(o.body, " . ", o.binding, PSGet("."), prec)
      [] o.k = "Assert" -> pretty_infix(o.value, " ! ", o.cond, PSGet("!"), prec)
      [] o.k = "Apply" -> pretty_infix(o.func, " ", o.arg, PSGet(""), prec)
      [] o.k = "Access" -> pretty_infix(o.obj, " @ ", o.at, PSGet("@"), prec)
      [] OTHER -> TextErr("UnboundLocalError")


----------------------------------------------------------------------------
(* SpecLex: Lexer(text).read_token() on every text of one to three        *)
(* characters drawn from the operator characters, a letter and a space.   *)

LexChars == OPER_CHARS \cup {"a", " "}

LexTexts ==
    LexChars \cup {x \o y : x, y \in LexChars} \cup {x \o y \o z : x, y, z \in LexChars}

NoToken == LexOk(EOF, "")

LexInit ==
    /\ phase = "text"
    /\ text \in LexTexts
    /\ toks = NoToken /\ tree = NoText /\ printed = NoText /\ back = NoText /\ cache = <<>>
    /\ TypesIdle
    /\ heap = EmptyHeap
    /\ obj = Hole /\ ser = NoSer /\ de = NoDe
    /\ menv = 0 /\ prev = NoCall /\ res = NoRes
    /\ mobj = Hole /\ mpat = Hole /\ mres = NoRes

\* Lexer(text).read_token()
ReadToken ==
    /\ phase = "text"
    /\ toks' = read_token(text)
    /\ phase' = "token"
    /\ UNCHANGED <<text, tree, printed, back, cache, typevars, heap, obj, ser, de, menv, prev, res, mobj, mpat, mres>>

LexNext == ReadToken

SpecLex == LexInit /\ [][LexNext]_vars

\* the text starts with a character that read_token hands to read_op
AtOperator ==
    /\ Head(text) \in OPER_CHARS \ {"#"}
    /\ ~startswith(text, "--")

\* the keys of the precedence table that are a prefix of the text
KeyPrefixes == {key \in PSKeys \ {""} : startswith(text, key)}
LongestKey == CHOOSE key \in KeyPrefixes : \A other \in KeyPrefixes : Len(other) <= Len(key)

\* the prefixes of the text that start some key of the table
OperatorPrefixes == {SubSeq(text, 1, n) : n \in {m \in 1..Len(text) : _starts_operator(SubSeq(text, 1, m))}}
LongestOperatorPrefix ==
    CHOOSE x \in OperatorPrefixes : \A other \in OperatorPrefixes : Len(other) <= Len(x)

\* C17: at an operator character the lexer emits, as one Operator token,
\* the longest key of the precedence table that is a prefix of the
\* remaining input, and every Operator token is a key of the table
C17_LongestKeyEmitted ==
    /\ (phase = "token" /\ AtOperator /\ KeyPrefixes # {}) =>
          /\ toks.st = "ok"
          /\ toks.tok = Operator(LongestKey)
          /\ toks.rest = SubSeq(text, Len(LongestKey) + 1, Len(text))
    /\ (phase = "token" /\ toks.st = "ok" /\ toks.tok.k = "Operator") => toks.tok.op \in PSKeys

\* C17, as the code has it: read_op reads the longest prefix of the input
\* that starts some key of the table; it emits that prefix as one Operator
\* token when it is a key (it is then the longest key that is a prefix of
\* the input) and raises ParseError when it is not, as for `..` and `&`;
\* every Operator token is a key of the table
C17_LongestOperatorPrefixRead ==
    /\ (phase = "token" /\ AtOperator) =>
          IF LongestOperatorPrefix \in PSKeys
          THEN /\ toks.st = "ok"
               /\ toks.tok = Operator(LongestOperatorPrefix)
               /\ LongestOperatorPrefix = LongestKey
               /\ toks.rest = SubSeq(text, Len(LongestOperatorPrefix) + 1, Len(text))
          ELSE toks.st = "ParseError"
    /\ (phase = "token" /\ toks.st = "ok" /\ toks.tok.k = "Operator") => toks.tok.op \in PSKeys

\* `>>x` was read as the one token `>>`
C17_Witness ==
    /\ phase = "token"
    /\ text = ">>a"
    /\ toks.st = "ok"
    /\ toks.tok = Operator(">>")
    /\ toks.rest = "a"


----------------------------------------------------------------------------
(* SpecParse: a source text is tokenized and parsed; the tree is then     *)
(* either evaluated in STDLIB, or printed by pretty and the printed text  *)
(* tokenized and parsed in its turn.                                      *)

\* the operators of the table that build a Binop and are declared lp or rp
AssocOps == {"//", "%", "+", "-", ">+", ":", "!", "^", "*", "/", "++", "+<", "&&", "||"}
AssocText(op) == "a " \o op \o " b " \o op \o " c"

\* texts with something other than a variable to the left of `->`
NonVarArrowTexts == {"1 -> a", "f 1 -> a", "[x] -> x", "(1 -> a) 2", "g . g = 1 -> a"}

ParseTexts ==
    {AssocText(op) : op \in AssocOps}
    \cup NonVarArrowTexts
    \cup {"1 + 2 + 3", "10 - 3 - 2", "1 / 3 * 3", "(a + b) * c", "a + b * c",
          "x -> x", "x -> y -> x", "(x -> x) 1", "| 1 -> a", "| 1 -> a | x -> b",
          "(| 1 -> 2 | x -> x) 1", "f (x -> x)",
          "a ? b", "1 ? 1 == 1", "f (a ? b)", "f (-1)", "f -1", "-1", "- a", "f 1", "f (g x)",
          "(f >> g) 1", "f << g", "a . a = 1", "a = 1", "{a = 1, b = x}", "{}", "[1, 2]", "[]",
          "[1, ...xs]", "{a = 1, ...}", "#t 1", "#t ()", "a @ b", "1.5", "\"s\"", "~~AQ==", "()",
          "a |> f", "f <| a", "1 ! 2", "a -- b",
          "a +", "(", "a = = b", "a .. b", "1 = 2", "a , b", ")", "[1 2",
          "(1)", "(1]", "(1}", "[1)", "[1 ) 2]", "{a = 1 ] b = 2}", "{a = 1)"}

ParseInit ==
    /\ phase = "text"
    /\ text \in ParseTexts
    /\ toks = NoText /\ tree = PErr("ok", <<>>, -1) /\ printed = NoText /\ back = PErr("ok", <<>>, -1) /\ cache = <<>>
    /\ TypesIdle
    /\ heap = EmptyHeap
    /\ obj = Hole /\ ser = NoSer /\ de = NoDe
    /\ menv = 0 /\ prev = NoCall /\ res = NoRes
    /\ mobj = Hole /\ mpat = Hole /\ mres = NoRes

\* tokenize(text), of the source text or of the text pretty returned
Tokenize ==
    /\ phase \in {"text", "printed"}
    /\ phase = "printed" => printed.st = "ok"
    /\ toks' = tokenize(text)
    /\ phase' = (IF phase = "text" THEN "tokens" ELSE "retokens")
    /\ UNCHANGED <<text, tree, printed, back, cache, typevars, heap, obj, ser, de, menv, prev, res, mobj, mpat, mres>>

\* parse(tokens), after gensym_reset()
Parse ==
    /\ phase \in {"tokens", "retokens"}
    /\ toks.st = "ok"
    /\ tree' = parse_tokens(toks.v, -1)
    /\ phase' = (IF phase = "tokens" THEN "tree" ELSE "reparsed")
    /\ UNCHANGED <<text, toks, printed, back, cache, typevars, heap, obj, ser, de, menv, prev, res, mobj, mpat, mres>>

\* the arguments of the pretty calls that pretty(o) makes, in their order
pretty_calls(o) ==
    CASE o.k = "List" -> o.items
      [] o.k = "Record" -> [i \in 1..Len(o.data) |-> o.data[i].val]
      [] o.k = "Variant" -> <<o.value>>
      [] o.k = "Assign" -> <<o.target, o.value>>
      [] o.k = "Binop" -> <<o.left, o.right>>
      [] o.k = "Function" -> <<o.body>>
      [] o.k = "MatchFunction" ->
            [i \in 1..(2 * Len(o.cases)) |->
                IF i % 2 = 1 THEN o.cases[(i + 1) \div 2].pattern ELSE o.cases[i \div 2].body]
      [] o.k = "Where" -> <<o.body, o.binding>>
      [] o.k = "Assert" -> <<o.value, o.cond>>
      [] o.k = "Apply" -> <<o.func, o.arg>>
      [] o.k = "Access" -> <<o.obj, o.at>>
      [] OTHER -> <<>>

RECURSIVE in_progress(_)
\* what wrapper leaves in the cache after pretty(o) on an empty cache:
\* cache.append(obj) precedes func(obj, prec), and cache.remove(obj) follows
\* it only when func returns
in_progress(o) ==
    IF pretty(o, 0).st = "ok" THEN <<>>
    ELSE LET calls == pretty_calls(o)
             raising == {i \in 1..Len(calls) : pretty(calls[i], 0).st # "ok"}
             first == CHOOSE i \in raising : \A j \in raising : i <= j
             before_calls == \/ o.k = "Function" /\ o.arg.k # "Var"
                             \/ o.k = "Binop" /\ to_str(o.op).st # "ok"
         IN IF before_calls \/ raising = {} THEN <<o>>
            ELSE <<o>> \o in_progress(calls[first])

\* pretty(tree); the text it returns is the text tokenized next, and back
\* keeps the tree that was printed
Pretty ==
    /\ phase = "tree"
    /\ tree.st = "ok"
    /\ printed' = pretty(tree.v, 0)
    /\ cache' = cache \o in_progress(tree.v)
    /\ text' = (IF printed'.st = "ok" THEN printed'.v ELSE text)
    /\ back' = tree
    /\ phase' = "printed"
    /\ UNCHANGED <<toks, tree, typevars, heap, obj, ser, de, menv, prev, res, mobj, mpat, mres>>

\* eval_exp(STDLIB, tree)
EvaluateTree ==
    /\ phase = "tree"
    /\ tree.st = "ok"
    /\ res' = Run(tree.v)
    /\ phase' = "evaluated"
    /\ UNCHANGED <<text, toks, tree, printed, back, cache, typevars, heap, obj, ser, de, menv, prev, mobj, mpat, mres>>

ParseNext == Tokenize \/ Parse \/ Pretty \/ EvaluateTree

SpecParse == ParseInit /\ [][ParseNext]_vars

----------------------------------------------------------------------------
(* Properties of the parser and of pretty *)

\* the source text was parsed
Parsed == phase \in {"tree", "evaluated"}

LeftNested(kind) == Binop(kind, Binop(kind, Var("a"), Var("b")), Var("c"))
RightNested(kind) == Binop(kind, Var("a"), Binop(kind, Var("b"), Var("c")))

\* C16: an operator declared lp n associates left to right, `a - b - c` is
\* (a - b) - c, and an operator declared rp n right to left, `a ^ b ^ c` is
\* a ^ (b ^ c)
C16_Associativity ==
    \A op \in AssocOps :
        (Parsed /\ text = AssocText(op)) =>
            /\ tree.st = "ok"
            /\ PSGet(op) = lp(PSGet(op).pl \div 10) => tree.v = LeftNested(from_str(op).v)
            /\ PSGet(op) = rp(PSGet(op).pl \div 10) => tree.v = RightNested(from_str(op).v)

RECURSIVE FunctionArgsAreVars(_)
\* every Function node of the tree e has a Var as its argument
FunctionArgsAreVars(e) ==
    CASE e.k = "Function" -> e.arg.k = "Var" /\ FunctionArgsAreVars(e.body)
      [] e.k = "Binop" -> FunctionArgsAreVars(e.left) /\ FunctionArgsAreVars(e.right)
      [] e.k = "Apply" -> FunctionArgsAreVars(e.func) /\ FunctionArgsAreVars(e.arg)
      [] e.k = "Where" -> FunctionArgsAreVars(e.body) /\ FunctionArgsAreVars(e.binding)
      [] e.k = "Assign" -> FunctionArgsAreVars(e.value)
      [] e.k = "Assert" -> FunctionArgsAreVars(e.value) /\ FunctionArgsAreVars(e.cond)
      [] e.k = "Access" -> FunctionArgsAreVars(e.obj) /\ FunctionArgsAreVars(e.at)
      [] e.k = "Variant" -> FunctionArgsAreVars(e.value)
      [] e.k = "List" -> \A j \in 1..Len(e.items) : FunctionArgsAreVars(e.items[j])
      [] e.k = "Record" -> \A j \in 1..Len(e.data) : FunctionArgsAreVars(e.data[j].val)
      [] e.k = "MatchFunction" -> \A j \in 1..Len(e.cases) : FunctionArgsAreVars(e.cases[j].body)
      [] OTHER -> TRUE

C19_PrettyRoundTrip ==
    /\ phase = "printed" => printed.st = "ok"
    /\ phase = "retokens" => toks.st = "ok"
    /\ phase = "reparsed" => (tree.st = "ok" /\ tree.v = back.v)

----------------------------------------------------------------------------
(* Type inference, src/scrapscript.py 4682-4857.  A scheme Forall(tyvars,  *)
(* ty) keeps the names of its type variables; a context is a dict from     *)
(* names to schemes.  infer_type returns [st, ty, T]: st is "ok" or the    *)
(* exception, T the store of type variables after the call.                *)

Forall(tyvars, ty) == [tyvars |-> tyvars, ty |-> ty]
IOk(T, ty) == [st |-> "ok", ty |-> ty, T |-> T]
IErr(T, e) == [st |-> e, ty |-> TyEmptyRow, T |-> T]

RECURSIVE apply_ty(_, _, _)
\* apply_ty on a type whose rows pass the assertion on rest
apply_ty(T, ty0, subst) ==
    LET ty == find(T, ty0)
    IN CASE ty.k = "TyVar" ->
              IF DictHas(subst, T.tv[ty.id].name) THEN DictGet(subst, T.tv[ty.id].name) ELSE ty
         [] ty.k = "TyCon" ->
              TyCon(ty.name, [i \in 1..Len(ty.args) |-> apply_ty(T, ty.args[i], subst)])
         [] ty.k = "TyEmptyRow" -> ty
         [] ty.k = "TyRow" ->
              TyRow([i \in 1..Len(ty.fields) |->
                        [key |-> ty.fields[i].key, val |-> apply_ty(T, ty.fields[i].val, subst)]],
                    apply_ty(T, ty.rest, subst))

RECURSIVE apply_ty_raises(_, _, _), apply_ty_raises_all(_, _, _)
\* the exception apply_ty(ty, subst) ends with, "ok" when it returns, for a
\* substitution that maps names to type variables: the assertion
\* `isinstance(rest, (TyVar, TyEmptyRow))` fails on a row whose rest resolves
\* to a row or a constructor; rest is applied before the fields
apply_ty_raises(T, ty0, fuel) ==
    LET ty == find(T, ty0)
    IN IF fuel = 0 THEN "RecursionError"
       ELSE CASE ty.k = "TyCon" -> apply_ty_raises_all(T, ty.args, fuel - 1)
              [] ty.k = "TyRow" ->
                   LET rest == apply_ty_raises(T, ty.rest, fuel - 1)
                   IN IF rest # "ok" THEN rest
                      ELSE IF find(T, ty.rest).k \notin {"TyVar", "TyEmptyRow"} THEN "AssertionError"
                      ELSE apply_ty_raises_all(T, [i \in 1..Len(ty.fields) |-> ty.fields[i].val], fuel - 1)
              [] OTHER -> "ok"

apply_ty_raises_all(T, tys, fuel) ==
    IF tys = <<>> THEN "ok"
    ELSE LET r == apply_ty_raises(T, Head(tys), fuel)
         IN IF r # "ok" THEN r ELSE apply_ty_raises_all(T, Tail(tys), fuel)

RECURSIVE fresh_subst(_, _, _)
\* {tyvar.name: fresh_tyvar() for tyvar in scheme.tyvars}: [T, subst]
fresh_subst(T, tyvars, subst) ==
    IF tyvars = <<>> THEN [T |-> T, subst |-> subst]
    ELSE LET F == fresh_tyvar(T)
         IN fresh_subst(F, Tail(tyvars), DictSet(subst, Head(tyvars), TyVar(Len(F.tv))))

\* apply_ty walks a chain of rows that a unify_type call built before its
\* recursion ran out, so its own recursion is given twice that depth
instantiate(T, scheme) ==
    LET fresh == fresh_subst(T, scheme.tyvars, <<>>)
        raises == apply_ty_raises(fresh.T, scheme.ty, 2 * MaxFuel)
    IN IF raises # "ok" THEN IErr(fresh.T, raises)
       ELSE IOk(fresh.T, apply_ty(fresh.T, scheme.ty, fresh.subst))

RECURSIVE ftv_ty(_, _)
\* the names of the unbound type variables of ty
ftv_ty(T, ty0) ==
    LET ty == find(T, ty0)
    IN CASE ty.k = "TyVar" -> {T.tv[ty.id].name}
         [] ty.k = "TyCon" -> UNION {ftv_ty(T, ty.args[i]) : i \in 1..Len(ty.args)}
         [] ty.k = "TyEmptyRow" -> {}
         [] ty.k = "TyRow" ->
              UNION {ftv_ty(T, ty.fields[i].val) : i \in 1..Len(ty.fields)} \cup ftv_ty(T, ty.rest)

\* the decimal digits of a fresh_var_counter below 100
Decimal(n) == IF n < 10 THEN <<n>> ELSE <<n \div 10, n % 10>>
\* "t<i>" < "t<j>" as Python compares strings
NameLess(i, j) ==
    LET a == Decimal(i)
        b == Decimal(j)
    IN \/ a[1] < b[1]
       \/ a[1] = b[1] /\ Len(a) < Len(b)
       \/ a[1] = b[1] /\ Len(a) = 2 /\ Len(b) = 2 /\ a[2] < b[2]

\* sorted(tyvars): the names "a", "b", "c" come before the names of fresh
\* type variables
sorted_tyvars(T, names) ==
    LET ids == SortSeq([i \in 1..T.n |-> i - 1], NameLess)
        all == <<"a", "b", "c">> \o [i \in 1..T.n |-> "t" \o ToString(ids[i])]
    IN SelectSeq(all, LAMBDA name : name \in names)

generalize_all(T, ty, ctx) == Forall(sorted_tyvars(T, ftv_ty(T, ty)), ty)
generalize(T, ty, ctx) ==
    LET ftv_scheme(scheme) == ftv_ty(T, scheme.ty) \ {scheme.tyvars[i] : i \in 1..Len(scheme.tyvars)}
        ftv_ctx == UNION {ftv_scheme(ctx[i].val) : i \in 1..Len(ctx)}
    IN Forall(sorted_tyvars(T, ftv_ty(T, ty) \ ftv_ctx), ty)

infer_common(T, expr) ==
    CASE expr.k = "Int" -> IOk(T, IntType)
      [] expr.k = "Float" -> IOk(T, FloatType)
      [] expr.k = "Bytes" -> IOk(T, BytesType)
      [] expr.k = "Hole" -> IOk(T, HoleType)
      [] expr.k = "String" -> IOk(T, StringType)
      [] OTHER -> IErr(T, "InferenceError")

PatOk(T, ty, ctx) == [st |-> "ok", ty |-> ty, T |-> T, ctx |-> ctx]
PatErr(T, e, ctx) == [st |-> e, ty |-> TyEmptyRow, T |-> T, ctx |-> ctx]

RECURSIVE infer_pattern_type(_, _, _), infer_pattern_items(_, _, _, _, _), infer_pattern_data(_, _, _, _)
\* returns [st, ty, T, ctx]: ctx is the context argument after the call
infer_pattern_type(T, pattern, ctx) ==
    CASE pattern.k \in {"Int", "Float", "Bytes", "Hole", "String"} ->
            PatOk(T, infer_common(T, pattern).ty, ctx)
      [] pattern.k = "Var" ->
            LET F == fresh_tyvar(T)
                result == TyVar(Len(F.tv))
            IN PatOk(F, result, DictSet(ctx, pattern.name, Forall(<<>>, result)))
      [] pattern.k = "List" ->
            LET F == fresh_tyvar(T)
            IN infer_pattern_items(F, pattern.items, ctx, TyVar(Len(F.tv)), MaxFuel)
      [] pattern.k = "Record" ->
            infer_pattern_data(T, pattern.data, ctx, <<>>)
      [] OTHER -> PatErr(T, "InferenceError", ctx)

\* the loop over pattern.items
infer_pattern_items(T, items, ctx, list_item_ty, fuel) ==
    IF items = <<>> THEN PatOk(T, list_type(list_item_ty), ctx)
    ELSE IF Head(items).k = "Spread" THEN
       PatOk(T, list_type(list_item_ty),
             IF Head(items).sname # <<>>
             THEN DictSet(ctx, Head(items).sname[1], Forall(<<>>, list_type(list_item_ty)))
             ELSE ctx)
    ELSE LET item == infer_pattern_type(T, Head(items), ctx)
             u == unify_type(item.T, list_item_ty, item.ty, fuel)
         IN IF item.st # "ok" THEN item
            ELSE IF u.st # "ok" THEN PatErr(u.T, u.st, item.ctx)
            ELSE infer_pattern_items(u.T, Tail(items), item.ctx, list_item_ty, fuel)

\* the loop over pattern.data.items()
infer_pattern_data(T, data, ctx, fields) ==
    IF data = <<>> THEN
       \* TyRow.__post_init__: an empty closed row raises
       IF fields = <<>> THEN PatErr(T, "InferenceError", ctx)
       ELSE PatOk(T, TyRow(fields, TyEmptyRow), ctx)
    ELSE IF Head(data).val.k = "Spread" THEN
       LET F == fresh_tyvar(T)
           rest == TyVar(Len(F.tv))
       IN PatOk(F, TyRow(fields, rest),
                IF Head(data).val.sname # <<>>
                THEN DictSet(ctx, Head(data).val.sname[1], Forall(<<>>, rest))
                ELSE ctx)
    ELSE LET value == infer_pattern_type(T, Head(data).val, ctx)
         IN IF value.st # "ok" THEN value
            ELSE infer_pattern_data(value.T, Tail(data), value.ctx,
                                    DictSet(fields, Head(data).key, value.ty))

\* OP_ENV's entry for `/`
div_result_int == IntType
div_result == FloatType

\* the store of the TyVar("a") objects of OP_ENV (they are never assigned to)
OpTypes == NewTyVar(NoTypes, "a")
OP_ENV ==
    Dict(<< <<"+", Forall(<<>>, func_type(IntType, func_type(IntType, IntType)))>>,
            <<"-", Forall(<<>>, func_type(IntType, func_type(IntType, IntType)))>>,
            <<"*", Forall(<<>>, func_type(IntType, func_type(IntType, IntType)))>>,
            <<"/", Forall(<<>>, func_type(IntType, func_type(IntType, div_result)))>>,
            <<"++", Forall(<<>>, func_type(StringType, func_type(StringType, StringType)))>>,
            <<">+", Forall(<<"a">>, func_type(TyVar(1), func_type(list_type(TyVar(1)), list_type(TyVar(1)))))>>,
            <<"+<", Forall(<<"a">>, func_type(list_type(TyVar(1)), func_type(TyVar(1), list_type(TyVar(1)))))>> >>)

RECURSIVE infer_type(_, _, _, _), infer_items(_, _, _, _, _), infer_cases(_, _, _, _, _),
          infer_data(_, _, _, _, _)
infer_type(T, expr, ctx, fuel) ==
    CASE expr.k \in {"Int", "Float", "Bytes", "Hole", "String"} -> infer_common(T, expr)
      [] expr.k = "Var" ->
            IF ~DictHas(ctx, expr.name) THEN IErr(T, "InferenceError")
            ELSE instantiate(T, DictGet(ctx, expr.name))
      [] expr.k = "Function" ->
            LET F == fresh_tyvar(T)
                arg_tyvar == TyVar(Len(F.tv))
            IN IF expr.arg.k # "Var" THEN IErr(F, "AssertionError")
               ELSE LET body == infer_type(F, expr.body, DictSet(ctx, expr.arg.name, Forall(<<>>, arg_tyvar)), fuel)
                    IN IF body.st # "ok" THEN body
                       ELSE IOk(body.T, func_type(arg_tyvar, body.ty))
      [] expr.k = "Binop" ->
            LET op == to_str(expr.op)
            IN IF op.st # "ok" THEN IErr(T, op.st)
               ELSE infer_type(T, Apply(Apply(Var(op.v), expr.left), expr.right), ctx, fuel)
      [] expr.k = "Where" ->
            IF expr.binding.k # "Assign" THEN IErr(T, "AssertionError")
            ELSE LET name == expr.binding.target.name
                     value == expr.binding.value
                     F == fresh_tyvar(T)
                     v == IF value.k \in {"Function", "MatchFunction"}
                          THEN infer_type(F, value, DictSet(ctx, name, Forall(<<>>, TyVar(Len(F.tv)))), fuel)
                          ELSE infer_type(T, value, ctx, fuel)
                 IN IF v.st # "ok" THEN v
                    ELSE infer_type(v.T, expr.body, DictSet(ctx, name, generalize(v.T, v.ty, ctx)), fuel)
      [] expr.k = "List" ->
            LET F == fresh_tyvar(T)
            IN infer_items(F, expr.items, ctx, TyVar(Len(F.tv)), fuel)
      [] expr.k = "MatchCase" ->
            LET pat == infer_pattern_type(T, expr.pattern, <<>>)
            IN IF pat.st # "ok" THEN IErr(pat.T, pat.st)
               ELSE LET body == infer_type(pat.T, expr.body, DictMerge(ctx, pat.ctx), fuel)
                    IN IF body.st # "ok" THEN body
                       ELSE IOk(body.T, func_type(pat.ty, body.ty))
      [] expr.k = "Apply" ->
            LET func == infer_type(T, expr.func, ctx, fuel)
            IN IF func.st # "ok" THEN func
               ELSE LET arg == infer_type(func.T, expr.arg, ctx, fuel)
                    IN IF arg.st # "ok" THEN arg
                       ELSE LET F == fresh_tyvar(arg.T)
                                result == TyVar(Len(F.tv))
                                u == unify_type(F, func.ty, func_type(arg.ty, result), fuel)
                            IN IF u.st # "ok" THEN IErr(u.T, u.st) ELSE IOk(u.T, result)
      [] expr.k = "MatchFunction" ->
            LET F == fresh_tyvar(T)
            IN infer_cases(F, expr.cases, ctx, TyVar(Len(F.tv)), fuel)
      [] expr.k = "Record" -> infer_data(T, expr.data, ctx, <<>>, fuel)
      [] expr.k = "Access" ->
            LET o == infer_type(T, expr.obj, ctx, fuel)
            IN IF o.st # "ok" THEN o
               ELSE LET F == fresh_tyvar(o.T)
                        value_ty == TyVar(Len(F.tv))
                        G == fresh_tyvar(F)
                        u == unify_type(G, o.ty, TyRow(Dict(<< <<expr.at.name, value_ty>> >>), TyVar(Len(G.tv))), fuel)
                    IN IF expr.at.k # "Var" THEN IErr(F, "AssertionError")
                       ELSE IF u.st # "ok" THEN IErr(u.T, u.st)
                       ELSE IOk(u.T, value_ty)
      [] OTHER -> IErr(T, "InferenceError")

\* the loop over expr.items
infer_items(T, items, ctx, list_item_ty, fuel) ==
    IF items = <<>> THEN IOk(T, list_type(list_item_ty))
    ELSE IF Head(items).k = "Spread" THEN IErr(T, "AssertionError")
    ELSE LET item == infer_type(T, Head(items), ctx, fuel)
         IN IF item.st # "ok" THEN item
            ELSE LET u == unify_type(item.T, list_item_ty, item.ty, fuel)
                 IN IF u.st # "ok" THEN IErr(u.T, u.st)
                    ELSE infer_items(u.T, Tail(items), ctx, list_item_ty, fuel)

\* the loop over expr.cases
infer_cases(T, cases, ctx, result, fuel) ==
    IF cases = <<>> THEN IOk(T, result)
    ELSE LET case == infer_type(T, Head(cases), ctx, fuel)
         IN IF case.st # "ok" THEN case
            ELSE LET u == unify_type(case.T, result, case.ty, fuel)
                 IN IF u.st # "ok" THEN IErr(u.T, u.st)
                    ELSE infer_cases(u.T, Tail(cases), ctx, result, fuel)

\* the loop over expr.data.items()
infer_data(T, data, ctx, fields, fuel) ==
    IF data = <<>> THEN
       \* TyRow.__post_init__: an empty closed row raises
       IF fields = <<>> THEN IErr(T, "InferenceError")
       ELSE IOk(T, TyRow(fields, TyEmptyRow))
    ELSE IF Head(data).val.k = "Spread" THEN IErr(T, "AssertionError")
    ELSE LET value == infer_type(T, Head(data).val, ctx, fuel)
         IN IF value.st # "ok" THEN value
            ELSE infer_data(value.T, Tail(data), ctx, DictSet(fields, Head(data).key, value.ty), fuel)

----------------------------------------------------------------------------
(* SpecInfer: a closed expression is evaluated in STDLIB and its type is  *)
(* inferred in OP_ENV, in either order, with fresh_var_counter reset.     *)

InferSources ==
    {
     \* 1 / 2 + 3
     Binop("ADD", Binop("DIV", IntObj(1), IntObj(2)), IntObj(3)),
     \* 1 + 2
     Binop("ADD", IntObj(1), IntObj(2)),
     \* 1 / 2
     Binop("DIV", IntObj(1), IntObj(2)),
     \* 2 * 3 - 1
     Binop("SUB", Binop("MUL", IntObj(2), IntObj(3)), IntObj(1)),
     \* "a" ++ "b"
     Binop("STRING_CONCAT", String("a"), String("b")),
     \* [1, 2]
     L(<<IntObj(1), IntObj(2)>>),
     \* 1 >+ [2]
     Binop("LIST_CONS", IntObj(1), L(<<IntObj(2)>>)),
     \* [1] +< 2
     Binop("LIST_APPEND", L(<<IntObj(1)>>), IntObj(2)),
     \* x -> x
     Fn("x", Var("x")),
     \* (x -> x) 1
     Apply(Fn("x", Var("x")), IntObj(1)),
     \* x -> [x, x]
     Fn("x", L(<<Var("x"), Var("x")>>)),
     \* (x -> [x, x]) 1
     Apply(Fn("x", L(<<Var("x"), Var("x")>>)), IntObj(1)),
     \* [1, "a"]
     L(<<IntObj(1), String("a")>>),
     \* {a = 1}
     Record(Dict(<<<<"a", IntObj(1)>>>>)),
     \* {a = 1, b = "s"}@b
     Access(Record(Dict(<<<<"a", IntObj(1)>>, <<"b", String("s")>>>>)), Var("b")),
     \* a . a = 1
     Where(Var("a"), Let("a", IntObj(1))),
     \* f 1 . f = x -> x + 1
     Where(Apply(Var("f"), IntObj(1)), Let("f", Fn("x", Binop("ADD", Var("x"), IntObj(1))))),
     \* [f 1, f 2] . f = x -> x
     Where(L(<<Apply(Var("f"), IntObj(1)), Apply(Var("f"), IntObj(2))>>), Let("f", Fn("x", Var("x")))),
     \* (| 1 -> 2 | x -> x) 3
     Apply(MatchFunction(<<MatchCase(IntObj(1), IntObj(2)), MatchCase(Var("x"), Var("x"))>>), IntObj(3)),
     \* (| 1 -> 2) 3
     Apply(MatchFunction(<<MatchCase(IntObj(1), IntObj(2))>>), IntObj(3)),
     \* 1 / 0
     Binop("DIV", IntObj(1), IntObj(0)),
     \* 1.5 + 2.5
     Binop("ADD", Float(<<3, 2>>), Float(<<5, 2>>)),
     \* 1 == 1
     Binop("EQUAL", IntObj(1), IntObj(1)),
     \* 1 // 2
     Binop("FLOOR_DIV", IntObj(1), IntObj(2)),
     \* #t ()
     Variant("t", Hole),
     \* ()
     Hole,
     \* ~~AQ==
     Bytes(<<1>>),
     \* "s"
     String("s"),
     \* 1.5
     Float(<<3, 2>>),
     \* x
     Var("x"),
     \* (| [x, ...y] -> y) [1, 2]
     Apply(MatchFunction(<<MatchCase(L(<<Var("x"), Spread(<<"y">>)>>), Var("y"))>>), L(<<IntObj(1), IntObj(2)>>)),
     \* (| {a = x, ...} -> x) {a = 1, b = 2}
     Apply(MatchFunction(<<MatchCase(Record(Dict(<<<<"a", Var("x")>>, <<"...", Spread(<<>>)>>>>)), Var("x"))>>), Record(Dict(<<<<"a", IntObj(1)>>, <<"b", IntObj(2)>>>>))),
     \* []
     L(<<>>),
     \* {}
     Record(<<>>),
     \* 1 -> a
     Function(IntObj(1), Var("a")),
     \* (x -> y -> x) 1 "s"
     Apply(Apply(Fn("x", Fn("y", Var("x"))), IntObj(1)), String("s")),
     \* 1 + "s"
     Binop("ADD", IntObj(1), String("s")),
     \* f . f = | 1 -> 2 | x -> f 1
     Where(Var("f"), Let("f", MatchFunction(<<MatchCase(IntObj(1), IntObj(2)), MatchCase(Var("x"), Apply(Var("f"), IntObj(1)))>>))),
     \* f . f = x -> x + f "a"
     Where(Var("f"), Let("f", Fn("x", Binop("ADD", Var("x"), Apply(Var("f"), String("a")))))),
     \* f . f = x -> f
     Where(Var("f"), Let("f", Fn("x", Var("f")))),
     \* 1 2
     Apply(IntObj(1), IntObj(2)),
     \* [1]@a
     Access(L(<<IntObj(1)>>), Var("a")) }

InferInit ==
    /\ phase = "expr"
    /\ obj \in InferSources
    /\ heap = EmptyHeap /\ ser = NoSer /\ de = NoDe
    /\ menv = 0 /\ prev = NoCall /\ res = NoRes
    /\ mobj = Hole /\ mpat = Hole /\ mres = NoRes
    /\ TypesIdle /\ TextIdle

\* infer_type(obj, OP_ENV)
Infer ==
    /\ phase \in {"expr", "evaluated"}
    /\ inferred' = infer_type(OpTypes, obj, OP_ENV, MaxFuel)
    /\ types' = inferred'.T
    /\ phase' = (IF phase = "expr" THEN "inferred" ELSE "both")
    /\ UNCHANGED <<ucall, textvars, heap, obj, ser, de, menv, prev, res, mobj, mpat, mres>>

\* eval_exp(STDLIB, obj)
EvaluateExpr ==
    /\ phase \in {"expr", "inferred"}
    /\ res' = Run(obj)
    /\ phase' = (IF phase = "expr" THEN "evaluated" ELSE "both")
    /\ UNCHANGED <<typevars, textvars, heap, obj, ser, de, menv, prev, mobj, mpat, mres>>

InferNext == Infer \/ EvaluateExpr

SpecInfer == InferInit /\ [][InferNext]_vars

RECURSIVE HasType(_, _, _)
\* the value v is of the type ty; an unbound type variable is any type
HasType(T, v, ty0) ==
    LET ty == find(T, ty0)
    IN CASE ty.k = "TyVar" -> TRUE
         [] ty.k = "TyCon" /\ ty.name = "int" -> v.k = "Int"
         [] ty.k = "TyCon" /\ ty.name = "float" -> v.k = "Float"
         [] ty.k = "TyCon" /\ ty.name = "string" -> v.k = "String"
         [] ty.k = "TyCon" /\ ty.name = "bytes" -> v.k = "Bytes"
         [] ty.k = "TyCon" /\ ty.name = "hole" -> v.k = "Hole"
         [] ty.k = "TyCon" /\ ty.name = "->" -> v.k \in {"Closure", "NativeFunction"}
         [] ty.k = "TyCon" /\ ty.name = "list" ->
              /\ v.k = "List"
              /\ \A i \in 1..Len(v.items) : HasType(T, v.items[i], ty.args[1])
         [] ty.k = "TyRow" ->
              LET f == row_flatten(T, ty)
              IN /\ v.k = "Record"
                 /\ f.st = "ok"
                 /\ DictKeys(f.fields) \subseteq DictKeys(v.data)
                 /\ f.rest.k = "TyEmptyRow" => DictKeys(v.data) = DictKeys(f.fields)
                 /\ \A key \in DictKeys(f.fields) : HasType(T, DictGet(v.data, key), DictGet(f.fields, key))
         [] OTHER -> FALSE

----------------------------------------------------------------------------
(* SpecTypes: up to MaxUnify inference operations (unify_type,            *)
(* generalize, instantiate, minimize) on the types of TypePool, starting  *)
(* from the three unbound type variables of SpecUnify.  inferred keeps    *)
(* the last generalize, instantiate or minimize call.                     *)

\* a walk over ty through find() meets a forwarding cycle and never ends
Loops(T, ty) ==
    \E i \in ReachableIn(T, TyVarsOf(ty), Len(T.tv)) : i \in ReachableFrom(T, i)

\* generalize(ty, ctx): [st, v]; ftv_ty ends with RecursionError on a cycle
generalize_call(T, ty, ctx) ==
    IF Loops(T, ty) \/ \E i \in 1..Len(ctx) : Loops(T, ctx[i].val.ty)
    THEN [st |-> "RecursionError", v |-> Forall(<<>>, ty)]
    ELSE [st |-> "ok", v |-> generalize(T, ty, ctx)]

RECURSIVE letter_subst(_, _, _, _)
\* {ftv: TyVar(next(letters)) for ftv in sorted(free)}: [T, subst]
letter_subst(T, free, letters, subst) ==
    IF free = <<>> THEN [T |-> T, subst |-> subst]
    ELSE LET N == NewTyVar(T, Head(letters))
         IN letter_subst(N, Tail(free), Tail(letters), DictSet(subst, Head(free), TyVar(Len(N.tv))))

\* minimize(ty): [st, ty, T]
minimize(T, ty) ==
    LET free == sorted_tyvars(T, ftv_ty(T, ty))
        made == letter_subst(T, free, <<"a", "b", "c", "d", "e", "f">>, <<>>)
        raises == apply_ty_raises(made.T, ty, 2 * MaxFuel)
    IN IF Loops(T, ty) THEN IErr(T, "RecursionError")
       ELSE IF raises # "ok" THEN IErr(made.T, raises)
       ELSE IOk(made.T, apply_ty(made.T, ty, made.subst))

\* the contexts handed to generalize
ContextPool ==
    { <<>>,
      Dict(<< <<"x", Forall(<<>>, TyVar(1))>> >>),
      Dict(<< <<"x", Forall(<<>>, list_type(TyVar(2)))>> >>),
      Dict(<< <<"x", Forall(<<>>, TyVar(2))>>, <<"f", Forall(<<"c">>, func_type(TyVar(3), TyVar(1)))>> >>) }

\* the schemes handed to instantiate
SchemePool ==
    { Forall(<<"a">>, func_type(TyVar(1), TyVar(2))),
      Forall(<<"c">>, TyRow(<<[key |-> "x", val |-> IntType]>>, TyVar(3))),
      Forall(<<"a", "b">>, TyRow(<<[key |-> "y", val |-> TyVar(1)]>>, TyVar(3))) }

NoInferred == [op |-> "", before |-> NoTypes]

TypesInit ==
    /\ phase = 0
    /\ types = UnifyTypes
    /\ ucall = NoUnify /\ inferred = NoInferred
    /\ TextIdle
    /\ heap = EmptyHeap
    /\ obj = Hole /\ ser = NoSer /\ de = NoDe
    /\ menv = 0 /\ prev = NoCall /\ res = NoRes
    /\ mobj = Hole /\ mpat = Hole /\ mres = NoRes

\* generalize(ty, ctx)
Generalize(ty, ctx) ==
    /\ phase < MaxUnify
    /\ inferred' = [op |-> "generalize", ty |-> ty, ctx |-> ctx, before |-> types,
                    out |-> generalize_call(types, ty, ctx)]
    /\ phase' = phase + 1
    /\ UNCHANGED <<types, ucall, textvars, heap, obj, ser, de, menv, prev, res, mobj, mpat, mres>>

\* instantiate(scheme)
Instantiate(scheme) ==
    /\ phase < MaxUnify
    /\ inferred' = [op |-> "instantiate", scheme |-> scheme, before |-> types,
                    out |-> instantiate(types, scheme)]
    /\ types' = inferred'.out.T
    /\ phase' = phase + 1
    /\ UNCHANGED <<ucall, textvars, heap, obj, ser, de, menv, prev, res, mobj, mpat, mres>>

\* minimize(ty)
Minimize(ty) ==
    /\ phase < MaxUnify
    /\ inferred' = [op |-> "minimize", ty |-> ty, before |-> types, out |-> minimize(types, ty)]
    /\ types' = inferred'.out.T
    /\ phase' = phase + 1
    /\ UNCHANGED <<ucall, textvars, heap, obj, ser, de, menv, prev, res, mobj, mpat, mres>>

TypesNext ==
    \/ \E ty1, ty2 \in TypePool : Unify(ty1, ty2)
    \/ \E ty \in TypePool, ctx \in ContextPool : Generalize(ty, ctx)
    \/ \E scheme \in SchemePool : Instantiate(scheme)
    \/ \E ty \in TypePool : Minimize(ty)

SpecTypes == TypesInit /\ [][TypesNext]_vars

----------------------------------------------------------------------------
(* Properties of generalize, instantiate, minimize and of the forwarding  *)
(* pointers, checked under SpecTypes                                      *)

\* the names of the unbound type variables that ty leads to through
\* forwarding pointers, constructor arguments and row fields
FreeNames(T, ty) ==
    {T.tv[i].name : i \in {j \in ReachableIn(T, TyVarsOf(ty), Len(T.tv)) : T.tv[j].forwarded = <<>>}}

SchemeFreeNames(T, scheme) ==
    FreeNames(T, scheme.ty) \ {scheme.tyvars[i] : i \in 1..Len(scheme.tyvars)}

\* C21: generalize(t, ctx) quantifies exactly the type variables that are
\* free in t, forwarding resolved, and free in no scheme of ctx, each once;
\* a variable free in the context is never quantified.
C21_GeneralizeQuantifiesFree ==
    (inferred.op = "generalize" /\ inferred.out.st = "ok") =>
        LET scheme == inferred.out.v
            quantified == {scheme.tyvars[i] : i \in 1..Len(scheme.tyvars)}
            ctx_free == UNION {SchemeFreeNames(inferred.before, inferred.ctx[i].val) : i \in 1..Len(inferred.ctx)}
        IN /\ quantified = FreeNames(inferred.before, inferred.ty) \ ctx_free
           /\ Cardinality(quantified) = Len(scheme.tyvars)
           /\ scheme.ty = inferred.ty

\* generalize 'a -> 'c where 'b was unified with 'a and the context holds
\* x : 'b and f : forall 'c. 'c -> 'a; only 'c is quantified
C21_Witness ==
    /\ phase = 2
    /\ ucall.ty1 = TyVar(2) /\ ucall.ty2 = TyVar(1) /\ ucall.out.st = "ok"
    /\ inferred.op = "generalize" /\ inferred.out.st = "ok"
    /\ inferred.before = types
    /\ inferred.ty = func_type(TyVar(1), TyVar(3))
    /\ DictKeys(inferred.ctx) = {"x", "f"}
    /\ inferred.out.v.tyvars = <<"c">>

\* C22: a forwarding pointer that has been set is never changed or cleared
\* by a later unify_type, generalize, instantiate or minimize call
C22_ForwardingWrittenOnce ==
    [][\A i \in 1..Len(types.tv) :
          types.tv[i].forwarded # <<>> =>
              /\ i <= Len(types'.tv)
              /\ types'.tv[i].forwarded = types.tv[i].forwarded]_vars

\* 'b was forwarded to 'a; unify_type('b, int) then writes the slot of 'a
C22_Witness ==
    /\ phase = 2
    /\ ucall.before.tv[2].forwarded = <<TyVar(1)>>
    /\ ucall.before.tv[1].forwarded = <<>>
    /\ ucall.ty1 = TyVar(2) /\ ucall.ty2 = IntType /\ ucall.out.st = "ok"
    /\ types.tv[2].forwarded = <<TyVar(1)>>
    /\ types.tv[1].forwarded = <<IntType>>

\* the fields of row that other lacks, as unify_type collects them
Missing(row, other) ==
    LET keys == sorted(DictKeys(row.fields) \ DictKeys(other.fields))
    IN [i \in 1..Len(keys) |-> [key |-> keys[i], val |-> DictGet(row.fields, keys[i])]]

\* the last unify_type call was on two open rows with distinct unbound
\* rests, each with a field the other lacks
BothMissingOpen ==
    /\ phase > 0
    /\ ucall.ty1.k = "TyRow" /\ ucall.ty2.k = "TyRow"
    /\ LET f1 == row_flatten(ucall.before, ucall.ty1)
           f2 == row_flatten(ucall.before, ucall.ty2)
       IN /\ f1.st = "ok" /\ f2.st = "ok"
          /\ f1.rest.k = "TyVar" /\ f2.rest.k = "TyVar"
          /\ f1.rest # f2.rest
          /\ Missing(f1, f2) # <<>> /\ Missing(f2, f1) # <<>>

\* C23: unify_type on two open rows with distinct unbound rests, each with
\* a field the other lacks, allocates one fresh variable r and forwards each
\* rest to the row of that side's missing fields with rest r; both rows then
\* flatten to the union of the field names and to the rest r.
C23_BothMissingOpen ==
    BothMissingOpen =>
        LET f1 == row_flatten(ucall.before, ucall.ty1)
            f2 == row_flatten(ucall.before, ucall.ty2)
            r == TyVar(Len(ucall.before.tv) + 1)
            g1 == row_flatten(ucall.out.T, ucall.ty1)
            g2 == row_flatten(ucall.out.T, ucall.ty2)
        IN /\ ucall.out.st = "ok"
           /\ Len(ucall.out.T.tv) = Len(ucall.before.tv) + 1
           /\ ucall.out.T.n = ucall.before.n + 1
           /\ ucall.out.T.tv[r.id].forwarded = <<>>
           /\ ucall.out.T.tv[f1.rest.id].forwarded = <<TyRow(Missing(f2, f1), r)>>
           /\ ucall.out.T.tv[f2.rest.id].forwarded = <<TyRow(Missing(f1, f2), r)>>
           /\ g1.st = "ok" /\ g2.st = "ok"
           /\ DictKeys(g1.fields) = DictKeys(f1.fields) \cup DictKeys(f2.fields)
           /\ DictKeys(g2.fields) = DictKeys(g1.fields)
           /\ g1.rest = r /\ g2.rest = r

\* {x = int, ...'c} and {y = int, ...'b}
C23_Witness ==
    /\ BothMissingOpen
    /\ ucall.before = UnifyTypes
    /\ ucall.ty1 = TyRow(<<[key |-> "x", val |-> IntType]>>, TyVar(3))
    /\ ucall.ty2 = TyRow(<<[key |-> "y", val |-> IntType]>>, TyVar(2))
    /\ ucall.out.T.tv[3].forwarded = <<TyRow(<<[key |-> "y", val |-> IntType]>>, TyVar(4))>>
    /\ ucall.out.T.tv[2].forwarded = <<TyRow(<<[key |-> "x", val |-> IntType]>>, TyVar(4))>>

\* C24: on a forest without a cycle unify_type returns or raises
\* InferenceError; it does not recurse without end, also not on two open
\* rows with different field names and the same rest variable.
C24_UnifyTerminates ==
    (phase > 0 /\ Acyclic(ucall.before)) => ucall.out.st \in {"ok", "InferenceError"}

\* the type that the last instantiate or minimize call went through
AppliedType == IF inferred.op = "instantiate" THEN inferred.scheme.ty ELSE inferred.ty

\* C25: after a unify_type call that returned, instantiate and minimize on
\* a type that was unified do not raise AssertionError: every row that
\* apply_ty meets has a rest that is a TyVar or the empty row.
C25_ApplyTyAssertionHolds ==
    (/\ inferred.op \in {"instantiate", "minimize"}
     /\ ucall.before = UnifyTypes /\ ucall.out.st = "ok"
     /\ inferred.before = ucall.out.T
     /\ AppliedType \in {ucall.ty1, ucall.ty2})
        => inferred.out.st # "AssertionError"

\* `f . f = <function>`: the body is the recursive function itself
LetrecSource ==
    /\ obj.k = "Where" /\ obj.body.k = "Var"
    /\ obj.binding.k = "Assign" /\ obj.binding.target = obj.body
    /\ obj.binding.value.k \in {"Function", "MatchFunction"}

\* the type variable that infer_type assumes for f: its first fresh variable
AssumedType == TyVar(Len(OpTypes.tv) + 1)

\* C26: in `f . f = <function>` the type assumed for f inside the definition
\* agrees with the type the definition gets: when inference returns, the
\* type of f and the type assumed for its recursive uses can be unified.
C26_RecursiveUseAgrees ==
    (phase \in {"inferred", "both"} /\ LetrecSource /\ inferred.st = "ok")
        => unify_type(inferred.T, AssumedType, inferred.ty, MaxFuel).st = "ok"

\* C27: evaluating an Assign leaves the captured environment of every
\* closure that existed before the call as it was.
C27_AssignKeepsClosureEnvs ==
    (Called /\ prev.exp.k = "Assign") =>
        \A i \in 1..Len(prev.heap.clos) :
            /\ res.h.clos[i].env = prev.heap.clos[i].env
            /\ res.h.dicts[res.h.clos[i].env] = prev.heap.dicts[prev.heap.clos[i].env]

\* C28: evaluating a Function whose parameter is a Var, or a MatchFunction,
\* returns a Closure: free_in has a set for every expression that can be
\* its body, so no NotImplementedError comes out of improve_closure.
C28_FunctionYieldsClosure ==
    (/\ Called
     /\ \/ prev.exp.k = "Function" /\ prev.exp.arg.k = "Var"
        \/ prev.exp.k = "MatchFunction")
        => (res.st = "ok" /\ res.v.k = "Closure")

\* C29: between pretty calls the list of the objects being printed is
\* empty, also after a pretty call that raised.
C29_CacheEmptyBetweenCalls == cache = <<>>

\* the closing delimiter of an opening one
Closing(k) ==
    CASE k = "LeftParen" -> "RightParen"
      [] k = "LeftBracket" -> "RightBracket"
      [] k = "LeftBrace" -> "RightBrace"

RECURSIVE Balanced(_, _)
\* every opening delimiter of the tokens is closed by its own closing
\* delimiter; pending lists the delimiters not closed yet, the innermost first
Balanced(ts, pending) ==
    IF ts = <<>> THEN pending = <<>>
    ELSE LET k == Head(ts).k
         IN IF k \in {"LeftParen", "LeftBracket", "LeftBrace"}
            THEN Balanced(Tail(ts), <<k>> \o pending)
            ELSE IF k \in {"RightParen", "RightBracket", "RightBrace"}
            THEN pending # <<>> /\ Closing(Head(pending)) = k /\ Balanced(Tail(ts), Tail(pending))
            ELSE Balanced(Tail(ts), pending)

\* C30: parse returns an expression only when every parenthesised group,
\* list and record of the tokens is closed by its own closing delimiter.
C30_DelimitersMatch ==
    (phase = "tree" /\ tree.st = "ok") => Balanced(toks.v, <<>>)

====
